---- MODULE Spec2Model ----
(***************************************************************************)
(* Signup-code lifecycle and status engine of the WIL backend              *)
(* (src/server.js).  The relational tables are the shared state; every     *)
(* handler that runs inside a transaction is a process whose statements    *)
(* interleave with those of the other requests.  A transaction's writes    *)
(* are kept in the request's record until COMMIT applies them to the       *)
(* tables (ROLLBACK drops them); reads see the committed tables; an        *)
(* uncommitted write holds its row lock, so a conflicting statement of     *)
(* another transaction waits (its action is disabled) until the holder     *)
(* commits or rolls back.                                                  *)
(***************************************************************************)
EXTENDS Integers, FiniteSets, Sequences, TLC

\* ---------------------------------------------------------------- bounds
MaxSignups == 2
MaxUpdates == 2
\* The days the calendar runs through (CURDATE() is 0 .. MaxDay).
MaxDay == 12
MaxStaffCodeReqs == 3
MaxStaffSignups == 2
MaxEventCodeReqs == 3
MaxLogsheetReqs == 2

Signups == 1..MaxSignups
Updates == 1..MaxUpdates
StaffCodeReqs == 1..MaxStaffCodeReqs
StaffSignups == 1..MaxStaffSignups
EventCodeReqs == 1..MaxEventCodeReqs
LogsheetReqs == 1..MaxLogsheetReqs

\* ---------------------------------------------------------------- inputs
\* An email address is <<local part, domain>>; the student endpoints match
\* a student number against the local part (email LIKE 'sn@%').
Emails == {<<"s1", "mut">>, <<"s2", "mut">>}
NoEmail == <<"", "">>
Passwords == {"pw"}
\* The values generateRandomCode can return, and the ones a client can present.
Codes == {"C1", "C2"}
NoCode == ""
StatusValues == {"Pending", "Accepted", "Rejected"}
\* A body without a status.
NoStatus == ""
\* A request body's status: a valid one, one the handler does not know, or none.
StatusInputs == StatusValues \cup {"Archived", NoStatus}
\* The ids a client can name: 1 is an application, 2 is none.
AppIds == {1, 2}

VARIABLES
    wil_application,  \* id -> row, for the applications that exist
    signup_codes,     \* set of rows [id, code, application_id, student_number, email]
    student_users,    \* set of rows [email, password, status]
    users,            \* set of rows [email, password]
    blocked_signups,  \* set of emails
    signup,           \* POST /api/student_signup requests
    upd,              \* PUT /api/update-status/:id requests
    daily_logsheet,   \* set of rows [id, student_number, log_date]
    today,            \* CURDATE(), in days
    recompute,        \* the last response of POST /api/update-student-status/:student_number
    admin,            \* the last response of the suspend, unenroll, enroll and reactivate endpoints
    sweep,            \* the POST /api/update-status-for-inactive-students request
    last_call,        \* the endpoint that answered last, and the student it was called for
    staff_codes,      \* set of rows [id, code, staff_name, staff_email]
    staff_users,      \* set of rows [email, password]
    mentor_users,     \* set of rows [email, password]
    staff_code_req,   \* POST /api/staff_codes requests
    staff_signup,     \* POST /api/staff_Signup and POST /api/mentor_signup requests
    event_codes,      \* set of rows [id, event_code, guest_email]
    event_code_req,   \* POST /api/create-event-code requests
    logsheet_req,     \* POST /api/submit-logsheet requests whose steps interleave
    guest_lectures,   \* set of rows [id, register_status, event_date]
    event_attendance, \* set of rows [id, event_id, student_id, attended]
    lecture,          \* the last response of lectures/register and event-attendance/mark
    removal           \* the last response of DELETE /api/delete-application/:id

vars == <<wil_application, signup_codes, student_users, users, blocked_signups,
          signup, upd, daily_logsheet, today, recompute, admin, sweep, last_call,
          staff_codes, staff_users, mentor_users, staff_code_req, staff_signup,
          event_codes, event_code_req, logsheet_req, guest_lectures, event_attendance,
          lecture, removal>>

tables == <<wil_application, signup_codes, student_users, users, blocked_signups>>

activity == <<daily_logsheet, today, recompute, admin, sweep>>

staff == <<staff_codes, staff_users, mentor_users, staff_code_req, staff_signup>>

events == <<event_codes, event_code_req>>

lectures == <<guest_lectures, event_attendance, lecture, removal>>

\* ---------------------------------------------------------------- helpers
\* bcrypt.hash(password, 10): a digest that is not the password.
BcryptHash(password) == <<"bcrypt", password>>
NoHash == <<"", "">>

DefaultStudentStatus == "active"

StudentUsersRow(email, hashedPassword) ==
    [email |-> email, password |-> hashedPassword, status |-> DefaultStudentStatus]

UsersRow(email, hashedPassword) ==
    [email |-> email, password |-> hashedPassword]

EmailsOf(table) == {row.email : row \in table}

\* SELECT * FROM signup_codes WHERE code = ?
SelectSignupCodes(code) == {s \in signup_codes : s.code = code}

\* The two handlers that redeem a row of signup_codes: /api/student_signup
\* writes student_users and users, /api/signup writes users only.
Routes == {"student_signup", "signup"}

IdleSignup ==
    [pc |-> "idle", route |-> "", email |-> NoEmail, password |-> "", code |-> NoCode,
     codeRows |-> {}, hashedPassword |-> NoHash,
     ins_student |-> {}, ins_users |-> {}, deleted |-> {},
     status |-> 0, message |-> "",
     email_blocked |-> FALSE, consumed_by |-> {},
     acquired |-> 0, released |-> 0]

\* The transaction of request r is open: its writes are pending, its locks held.
SignupOpen(r) == signup[r].pc \in {"insert_student", "insert_users", "delete_code", "commit"}

\* The codes whose redemption has committed (201), and the handlers that
\* have redeemed a given code.
ConsumedCodes == {signup[r].code : r \in {q \in Signups : signup[q].status = 201}}

ConsumedBy(code) ==
    {signup[r].route : r \in {q \in Signups : signup[q].status = 201 /\ signup[q].code = code}}

\* A finally block that does not give the connection back.
ReleaseSkipped(released) == released

\* connection.release() in the finally block of a handler: one more release
\* of the request's connection.
Release(released) == released + 1

\* res.status(..).json(..) of a request whose transaction is over, and the
\* finally block that follows it.
SignupRespond(r, status, message) ==
    signup' = [signup EXCEPT ![r] =
        [@ EXCEPT !.pc = "done", !.status = status, !.message = message,
                  !.email = NoEmail, !.password = "", !.hashedPassword = NoHash,
                  !.ins_student = {}, !.ins_users = {}, !.deleted = {},
                  !.released = Release(@)]]

NoRow == [id |-> 0, student_number |-> "", email |-> NoEmail, status |-> ""]

IdleUpdate ==
    [pc |-> "idle", id |-> 0, status |-> "", appData |-> NoRow, wrote |-> FALSE,
     generatedCode |-> NoCode, new_codes |-> {}, sent |-> {}, http |-> 0, message |-> "",
     errorDetails |-> "", acquired |-> 0, released |-> 0]

\* A nullable column or field is a set: empty for NULL, else its one value.
NoRecompute ==
    [student_number |-> "", http |-> 0, message |-> "", status_changed |-> FALSE,
     data_status |-> {}, last_activity_date |-> {}, days_since_last_activity |-> {}]

\* No response of the admin endpoints yet.
NoAdmin ==
    [op |-> "", student_number |-> "", http |-> 0, message |-> "", data_status |-> {},
     mails |-> {}, last_activity_date |-> {}, days_since_last_activity |-> {}]

\* The sweep before its first call: no snapshot, nothing processed.
IdleSweep ==
    [pc |-> "idle", activeStudents |-> <<>>, i |-> 0, updatedStudents |-> <<>>,
     http |-> 0, message |-> ""]

NoCall == [op |-> "", student_number |-> "", again |-> FALSE]

\* The endpoint op has answered last, for this student.
Answered(op, studentNumber) ==
    last_call.op = op /\ last_call.student_number = studentNumber

\* The record of a call that answers now; again tells that the same endpoint
\* answered for the same student directly before it.
Call(op, studentNumber) ==
    [op |-> op, student_number |-> studentNumber, again |-> Answered(op, studentNumber)]

InvalidCodeMessage == "Invalid or expired signup code"

\* A duplicate email reported as an invalid code.
DuplicateMessageAsInvalidCode(route) == InvalidCodeMessage

DuplicateMessage(route) ==
    IF route = "student_signup" THEN "Email already exists in one or both systems"
    ELSE "Email already exists"

CreatedMessage(route) ==
    IF route = "student_signup" THEN "User registered successfully in both systems"
    ELSE "User registered successfully and code deleted"

\* ------------------------------------------- staff and event codes: state
\* The values generateStaffCode() can return.
StaffCodeValues == {"K1", "K2"}
\* The values generateEventCode() can return.
EventCodeValues == {"E1", "E2"}

\* const maxAttempts = 5 of POST /api/staff_codes.
maxAttempts == 5

\* An address as the characters of its string; the empty string is falsy.
NoAddress == <<>>
AddressInputs == {<<"t", "@", "m", ".", "z">>, <<"t", "@", "m">>, NoAddress}
NameInputs == {"", "Thabo"}

\* emailRegex.test(address) with /^[^\s@]+@[^\s@]+\.[^\s@]+$/: one "@", no
\* white space, something before the "@", and after it a "." with something
\* on both of its sides.
emailRegexTest(address) ==
    /\ \A k \in 1..Len(address) : address[k] # " "
    /\ \E at \in 2..Len(address) :
          /\ address[at] = "@"
          /\ \A k \in 1..Len(address) : address[k] = "@" => k = at
          /\ \E dot \in (at + 2)..(Len(address) - 1) : address[dot] = "."

IdleStaffCodeReq ==
    [pc |-> "idle", staff_name |-> "", staff_email |-> NoAddress, code |-> NoCode,
     isUnique |-> FALSE, attempts |-> 0, inserted |-> {}, mails |-> 0,
     http |-> 0, message |-> ""]

\* The two handlers that redeem a row of staff_codes.
StaffRoutes == {"staff_Signup", "mentor_signup"}

IdleStaffSignup ==
    [pc |-> "idle", route |-> "", email |-> NoEmail, code |-> NoCode, rows |-> {},
     ins |-> {}, deleted |-> {}, status |-> 0, message |-> "", redeemed_before |-> FALSE,
     acquired |-> 0, released |-> 0]

IdleEventCodeReq ==
    [pc |-> "idle", guest_email |-> NoAddress, event_code |-> NoCode,
     existingCodes |-> FALSE, regenerated |-> FALSE, inserted |-> {}, mails |-> 0,
     http |-> 0, message |-> ""]

InitStaff ==
    /\ staff_codes = {}
    /\ staff_users = {}
    /\ mentor_users = {}
    /\ staff_code_req = [i \in StaffCodeReqs |-> IdleStaffCodeReq]
    /\ staff_signup = [r \in StaffSignups |-> IdleStaffSignup]

InitEvents ==
    /\ event_codes = {}
    /\ event_code_req = [i \in EventCodeReqs |-> IdleEventCodeReq]

IdleLogsheetReq ==
    [pc |-> "idle", student_number |-> "", log_date |-> 0, http |-> 0, message |-> "",
     inserted |-> {}]

InitLogsheetReqs == logsheet_req = [q \in LogsheetReqs |-> IdleLogsheetReq]

\* No response of the lecture endpoints yet.
NoLecture == [op |-> "", event_id |-> 0, student_id |-> "", http |-> 0, message |-> ""]

\* No response of delete-application yet.
NoRemoval == [id |-> 0, http |-> 0, message |-> ""]

InitLectures ==
    /\ guest_lectures = {}
    /\ event_attendance = {}
    /\ lecture = NoLecture
    /\ removal = NoRemoval

Init ==
    /\ wil_application =
          [id \in {1} |->
              [id |-> id, student_number |-> "s1", email |-> <<"s1", "mut">>,
               status |-> "Pending"]]
    /\ signup_codes = {}
    /\ student_users = {}
    /\ users = {}
    /\ blocked_signups = {}
    /\ signup = [r \in Signups |-> IdleSignup]
    /\ upd = [u \in Updates |-> IdleUpdate]
    /\ daily_logsheet = {}
    /\ today = 0
    /\ recompute = NoRecompute
    /\ admin = NoAdmin
    /\ sweep = IdleSweep
    /\ last_call = NoCall
    /\ InitStaff
    /\ InitEvents
    /\ InitLogsheetReqs
    /\ InitLectures

\* pool: the connections that requests have got and not yet given back.
ConnectionsHeld ==
    Cardinality({r \in Signups : signup[r].acquired > signup[r].released})
        + Cardinality({u \in Updates : upd[u].acquired > upd[u].released})
        + Cardinality({r \in StaffSignups :
                          staff_signup[r].acquired > staff_signup[r].released})

\* ----------------------------- POST /api/student_signup, POST /api/signup
\* Lines 189-214 (407-432): the code check, getConnection, beginTransaction,
\* the lookup of the code row, and bcrypt.hash of the password.
SignupLookup(r, route, email, password, code) ==
    /\ signup[r].pc = "idle"
    /\ IF r = 1 THEN TRUE ELSE signup[r - 1].pc # "idle"
    /\ LET req == [IdleSignup EXCEPT !.route = route, !.email = email,
                                     !.password = password, !.code = code]
           codeRows == SelectSignupCodes(code)
       IN  IF code = NoCode
           THEN signup' = [signup EXCEPT ![r] =
                    [req EXCEPT !.pc = "done", !.status = 400,
                                !.message = "Signup code is required"]]
           ELSE IF codeRows = {}
           THEN signup' = [signup EXCEPT ![r] =
                    [req EXCEPT !.pc = "done", !.status = 400,
                                !.message = InvalidCodeMessage,
                                !.consumed_by = ConsumedBy(code),
                                !.acquired = 1, !.released = Release(0)]]
           ELSE signup' = [signup EXCEPT ![r] =
                    [req EXCEPT !.pc = IF route = "student_signup"
                                       THEN "insert_student" ELSE "insert_users",
                                !.acquired = 1,
                                !.codeRows = {s.id : s \in codeRows},
                                !.hashedPassword = BcryptHash(password),
                                !.email_blocked =
                                    \E s \in codeRows : s.email \in blocked_signups,
                                !.consumed_by = ConsumedBy(code)]]
    /\ UNCHANGED <<tables, upd, activity, staff, events, logsheet_req, lectures>>
    /\ last_call' = NoCall

\* A rollback that lets the pending delete through.
SignupRollbackLosesCode(r) ==
    /\ signup_codes' = {s \in signup_codes : s.id \notin signup[r].deleted}
    /\ UNCHANGED <<wil_application, student_users, users, blocked_signups>>

\* connection.rollback(): the pending writes of r are dropped.
SignupRollback(r) == UNCHANGED tables

\* Lines 216-220: INSERT INTO student_users.  The unique email key makes the
\* statement wait for an uncommitted insert of the same email and fail with
\* ER_DUP_ENTRY once such a row is committed (lines 237-246).
SignupInsertStudent(r) ==
    /\ signup[r].pc = "insert_student"
    /\ \A q \in Signups \ {r} :
          ~(SignupOpen(q) /\ signup[r].email \in EmailsOf(signup[q].ins_student))
    /\ IF signup[r].email \in EmailsOf(student_users)
       THEN /\ SignupRollback(r)
            /\ SignupRespond(r, 400, DuplicateMessage(signup[r].route))
       ELSE /\ signup' = [signup EXCEPT ![r] =
                    [@ EXCEPT !.pc = "insert_users",
                              !.ins_student = {StudentUsersRow(signup[r].email,
                                                               signup[r].hashedPassword)}]]
            /\ UNCHANGED tables
    /\ UNCHANGED <<upd, activity, staff, events, logsheet_req, lectures>>
    /\ last_call' = NoCall

\* Lines 222-226 (433-434): INSERT INTO users, with the same hash.
SignupInsertUsers(r) ==
    /\ signup[r].pc = "insert_users"
    /\ \A q \in Signups \ {r} :
          ~(SignupOpen(q) /\ signup[r].email \in EmailsOf(signup[q].ins_users))
    /\ IF signup[r].email \in EmailsOf(users)
       THEN /\ SignupRollback(r)
            /\ SignupRespond(r, 400, DuplicateMessage(signup[r].route))
       ELSE /\ signup' = [signup EXCEPT ![r] =
                    [@ EXCEPT !.pc = "delete_code",
                              !.ins_users = {UsersRow(signup[r].email,
                                                      signup[r].hashedPassword)}]]
            /\ UNCHANGED tables
    /\ UNCHANGED <<upd, activity, staff, events, logsheet_req, lectures>>
    /\ last_call' = NoCall

\* Line 229 (437): DELETE FROM signup_codes WHERE code = ?.  The statement
\* locks and deletes the rows that carry the code now (none, if another
\* redemption has committed its delete); it waits for an uncommitted delete
\* of such a row.  Its affected-row count is not looked at.
SignupDeleteCode(r) ==
    /\ signup[r].pc = "delete_code"
    /\ LET rows == {s.id : s \in SelectSignupCodes(signup[r].code)}
       IN  /\ \A q \in Signups \ {r} : ~(SignupOpen(q) /\ signup[q].deleted \cap rows # {})
           /\ signup' = [signup EXCEPT ![r] = [@ EXCEPT !.pc = "commit", !.deleted = rows]]
    /\ UNCHANGED <<tables, upd, activity, staff, events, logsheet_req, lectures>>
    /\ last_call' = NoCall

\* A commit that has lost the insert into users.
SignupCommitStudentOnly(r) ==
    /\ student_users' = student_users \cup signup[r].ins_student
    /\ signup_codes' = {s \in signup_codes : s.id \notin signup[r].deleted}
    /\ UNCHANGED <<wil_application, users, blocked_signups>>

\* connection.commit() of a redemption: its pending writes reach the tables together.
SignupCommit(r) ==
    /\ student_users' = student_users \cup signup[r].ins_student
    /\ users' = users \cup signup[r].ins_users
    /\ signup_codes' = {s \in signup_codes : s.id \notin signup[r].deleted}
    /\ UNCHANGED <<wil_application, blocked_signups>>

\* Lines 231-236 (439-443): commit, 201.
SignupCommitted(r) ==
    /\ signup[r].pc = "commit"
    /\ SignupCommit(r)
    /\ SignupRespond(r, 201, CreatedMessage(signup[r].route))
    /\ UNCHANGED <<upd, activity, staff, events, logsheet_req, lectures>>
    /\ last_call' = NoCall

\* Lines 237-251 (444-450): a statement of the open transaction throws
\* something other than ER_DUP_ENTRY (an insert, the delete, the commit, or
\* bcrypt.hash before the first insert): rollback, 500.
SignupThrows(r) ==
    /\ SignupOpen(r)
    /\ SignupRollback(r)
    /\ SignupRespond(r, 500, "Signup failed")
    /\ UNCHANGED <<upd, activity, staff, events, logsheet_req, lectures>>
    /\ last_call' = NoCall

\* Lines 237-238, 252-254: a statement throws and connection.rollback() in the
\* catch block throws as well (the connection is lost, the server drops the
\* transaction): the finally block runs, no response is sent.
SignupRollbackThrows(r) ==
    /\ SignupOpen(r)
    /\ SignupRollback(r)
    /\ SignupRespond(r, 0, "")
    /\ UNCHANGED <<upd, activity, staff, events, logsheet_req, lectures>>
    /\ last_call' = NoCall

Signup ==
    \/ \E r \in Signups, route \in Routes, email \in Emails, password \in Passwords,
          code \in Codes \cup {NoCode} :
          SignupLookup(r, route, email, password, code)
    \/ \E r \in Signups : SignupInsertStudent(r)
    \/ \E r \in Signups : SignupInsertUsers(r)
    \/ \E r \in Signups : SignupDeleteCode(r)
    \/ \E r \in Signups : SignupCommitted(r)
    \/ \E r \in Signups : SignupThrows(r)
    \/ \E r \in Signups : SignupRollbackThrows(r)

\* ------------------------------------------- PUT /api/update-status/:id
\* generateRandomCode(): any of the values the generator can return; nothing
\* is compared with the codes issued before.
generateRandomCode == Codes

\* The mails transporter.sendMail has accepted, each with the request that sent it.
Outbox == UNION {{[by |-> u, mail |-> m] : m \in upd[u].sent} : u \in Updates}

UpdOpen(u) ==
    upd[u].pc \in {"update", "insert_code", "send_acceptance", "send_rejection", "commit"}

\* The UPDATE of u holds the row lock of its application until the transaction ends.
UpdHoldsRow(u, id) == UpdOpen(u) /\ upd[u].wrote /\ upd[u].id = id

\* The response of a request whose transaction is over, and the finally
\* block that follows it (lines 2096-2098).
UpdRespond(u, http, message, errorDetails) ==
    upd' = [upd EXCEPT ![u] =
        [@ EXCEPT !.pc = "done", !.http = http, !.message = message,
                  !.errorDetails = errorDetails,
                  !.appData = NoRow, !.wrote = FALSE, !.new_codes = {},
                  !.released = Release(@)]]

\* connection.rollback(): the pending writes of u are dropped.
UpdRollback(u) == UNCHANGED tables

\* A handler that takes any status.
UpdateStatusSelectAnyStatus(u, id, status) ==
    /\ upd[u].pc = "idle"
    /\ IF u = 1 THEN TRUE ELSE upd[u - 1].pc # "idle"
    /\ LET req == [IdleUpdate EXCEPT !.id = id, !.status = status]
       IN  IF id \notin DOMAIN wil_application
           THEN upd' = [upd EXCEPT ![u] =
                    [req EXCEPT !.pc = "done", !.http = 404,
                                !.message = "Application not found",
                                !.acquired = 1, !.released = Release(0)]]
           ELSE upd' = [upd EXCEPT ![u] =
                    [req EXCEPT !.pc = "update", !.appData = wil_application[id],
                                !.acquired = 1]]
    /\ UNCHANGED <<tables, signup, activity, staff, events, logsheet_req, lectures>>
    /\ last_call' = NoCall

\* Lines 1994-2028: the status check (400 before any transaction), then
\* getConnection, beginTransaction and the SELECT of the application (404).
UpdateStatusSelect(u, id, status) ==
    /\ upd[u].pc = "idle"
    /\ IF u = 1 THEN TRUE ELSE upd[u - 1].pc # "idle"
    /\ LET req == [IdleUpdate EXCEPT !.id = id, !.status = status]
       IN  IF status \notin StatusValues
           THEN upd' = [upd EXCEPT ![u] =
                    [req EXCEPT !.pc = "done", !.http = 400,
                                !.message = "Invalid status value"]]
           ELSE IF id \notin DOMAIN wil_application
           THEN upd' = [upd EXCEPT ![u] =
                    [req EXCEPT !.pc = "done", !.http = 404,
                                !.message = "Application not found",
                                !.acquired = 1, !.released = Release(0)]]
           ELSE upd' = [upd EXCEPT ![u] =
                    [req EXCEPT !.pc = "update", !.appData = wil_application[id],
                                !.acquired = 1]]
    /\ UNCHANGED <<tables, signup, activity, staff, events, logsheet_req, lectures>>
    /\ last_call' = NoCall

\* An update that issues a code for a rejection too.
UpdateStatusUpdateCodeOnRejection(u) ==
    /\ upd[u].pc = "update"
    /\ \A v \in Updates \ {u} : ~UpdHoldsRow(v, upd[u].id)
    /\ IF upd[u].id \notin DOMAIN wil_application
       THEN /\ UpdRollback(u)
            /\ UpdRespond(u, 500, "No rows were updated", "")
       ELSE /\ upd' = [upd EXCEPT ![u] =
                    [@ EXCEPT !.wrote = TRUE,
                              !.pc = CASE upd[u].status = "Accepted" -> "insert_code"
                                       [] upd[u].status = "Rejected" -> "insert_code"
                                       [] OTHER -> "commit"]]
            /\ UNCHANGED tables
    /\ UNCHANGED <<signup, activity, staff, events, logsheet_req, lectures>>
    /\ last_call' = NoCall

\* Lines 2030-2044: UPDATE wil_application SET status = ?; zero affected rows
\* is answered with a rollback and 500.
UpdateStatusUpdate(u) ==
    /\ upd[u].pc = "update"
    /\ \A v \in Updates \ {u} : ~UpdHoldsRow(v, upd[u].id)
    /\ IF upd[u].id \notin DOMAIN wil_application
       THEN /\ UpdRollback(u)
            /\ UpdRespond(u, 500, "No rows were updated", "")
       ELSE /\ upd' = [upd EXCEPT ![u] =
                    [@ EXCEPT !.wrote = TRUE,
                              !.pc = CASE upd[u].status = "Accepted" -> "insert_code"
                                       [] upd[u].status = "Rejected" -> "send_rejection"
                                       [] OTHER -> "commit"]]
            /\ UNCHANGED tables
    /\ UNCHANGED <<signup, activity, staff, events, logsheet_req, lectures>>
    /\ last_call' = NoCall

\* An acceptance that issues no code for an application that is Accepted already.
UpdateStatusInsertCodeOnce(u, code) ==
    /\ upd[u].pc = "insert_code"
    /\ upd' = [upd EXCEPT ![u] =
          [@ EXCEPT !.pc = "send_acceptance", !.generatedCode = code,
                    !.new_codes =
                        IF upd[u].appData.status = "Accepted" THEN {}
                        ELSE {[id |-> u, code |-> code,
                               application_id |-> upd[u].id,
                               student_number |-> upd[u].appData.student_number,
                               email |-> upd[u].appData.email]}]]
    /\ UNCHANGED <<tables, signup, activity, staff, events, logsheet_req, lectures>>
    /\ last_call' = NoCall

\* Lines 2048-2065: generate the code and INSERT it with the identity fields
\* read from the application row.
UpdateStatusInsertCode(u, code) ==
    /\ upd[u].pc = "insert_code"
    /\ upd' = [upd EXCEPT ![u] =
          [@ EXCEPT !.pc = "send_acceptance", !.generatedCode = code,
                    !.new_codes = {[id |-> u, code |-> code,
                                    application_id |-> upd[u].id,
                                    student_number |-> upd[u].appData.student_number,
                                    email |-> upd[u].appData.email]}]]
    /\ UNCHANGED <<tables, signup, activity, staff, events, logsheet_req, lectures>>
    /\ last_call' = NoCall

\* Lines 1943-1959, 2068-2072: sendAcceptanceEmail, awaited inside the
\* transaction; transporter.sendMail accepts the mail.
UpdateStatusSendAcceptance(u) ==
    /\ upd[u].pc = "send_acceptance"
    /\ upd' = [upd EXCEPT ![u] =
          [@ EXCEPT !.pc = "commit",
                    !.sent = {[kind |-> "acceptance", to |-> upd[u].appData.email,
                               code |-> upd[u].generatedCode]}]]
    /\ UNCHANGED <<tables, signup, activity, staff, events, logsheet_req, lectures>>
    /\ last_call' = NoCall

\* Lines 1960-1963, 2087-2095: sendMail fails, sendAcceptanceEmail throws, the
\* handler's catch rolls the transaction back and answers 500.
UpdateStatusAcceptanceFails(u) ==
    /\ upd[u].pc = "send_acceptance"
    /\ UpdRollback(u)
    /\ UpdRespond(u, 500, "Database operation failed",
                     "Status updated but failed to send email")
    /\ UNCHANGED <<signup, activity, staff, events, logsheet_req, lectures>>
    /\ last_call' = NoCall

\* A rejection that sends no mail.
UpdateStatusSkipRejectionMail(u) ==
    /\ upd[u].pc = "send_rejection"
    /\ upd' = [upd EXCEPT ![u] = [@ EXCEPT !.pc = "commit"]]
    /\ UNCHANGED <<tables, signup, activity, staff, events, logsheet_req, lectures>>
    /\ last_call' = NoCall

\* Lines 1966-1981, 2073-2076: sendRejectionEmail, also inside the transaction.
UpdateStatusSendRejection(u) ==
    /\ upd[u].pc = "send_rejection"
    /\ upd' = [upd EXCEPT ![u] =
          [@ EXCEPT !.pc = "commit",
                    !.sent = {[kind |-> "rejection", to |-> upd[u].appData.email,
                               code |-> NoCode]}]]
    /\ UNCHANGED <<tables, signup, activity, staff, events, logsheet_req, lectures>>
    /\ last_call' = NoCall

\* Lines 1982-1985, 2087-2095.
UpdateStatusRejectionFails(u) ==
    /\ upd[u].pc = "send_rejection"
    /\ UpdRollback(u)
    /\ UpdRespond(u, 500, "Database operation failed",
                     "Status updated but failed to send email")
    /\ UNCHANGED <<signup, activity, staff, events, logsheet_req, lectures>>
    /\ last_call' = NoCall

\* A commit that has lost the insert of the code row.
UpdCommitStatusOnly(u) ==
    /\ wil_application' =
          IF upd[u].wrote /\ upd[u].id \in DOMAIN wil_application
          THEN [wil_application EXCEPT ![upd[u].id].status = upd[u].status]
          ELSE wil_application
    /\ UNCHANGED <<signup_codes, student_users, users, blocked_signups>>

\* connection.commit() of a status update: the new status and the code row
\* reach the tables together.
UpdCommit(u) ==
    /\ wil_application' =
          IF upd[u].wrote /\ upd[u].id \in DOMAIN wil_application
          THEN [wil_application EXCEPT ![upd[u].id].status = upd[u].status]
          ELSE wil_application
    /\ signup_codes' = signup_codes \cup upd[u].new_codes
    /\ UNCHANGED <<student_users, users, blocked_signups>>

\* Lines 2078-2086: commit, 200 with the code (null unless Accepted).
UpdateStatusCommit(u) ==
    /\ upd[u].pc = "commit"
    /\ UpdCommit(u)
    /\ UpdRespond(u, 200, "Status updated successfully", "")
    /\ UNCHANGED <<signup, activity, staff, events, logsheet_req, lectures>>
    /\ last_call' = NoCall

\* Lines 2087-2095: a statement of the open transaction throws (the UPDATE,
\* the INSERT or the commit): rollback, 500.
UpdateStatusThrows(u) ==
    /\ UpdOpen(u)
    /\ UpdRollback(u)
    /\ UpdRespond(u, 500, "Database operation failed", "statement failed")
    /\ UNCHANGED <<signup, activity, staff, events, logsheet_req, lectures>>
    /\ last_call' = NoCall

\* Lines 2087-2089, 2096-2098: a statement throws and connection.rollback() in
\* the catch block throws as well: the finally block runs, no response is sent.
UpdateStatusRollbackThrows(u) ==
    /\ UpdOpen(u)
    /\ UpdRollback(u)
    /\ UpdRespond(u, 0, "", "")
    /\ UNCHANGED <<signup, activity, staff, events, logsheet_req, lectures>>
    /\ last_call' = NoCall

UpdateStatus ==
    \/ \E u \in Updates, id \in AppIds, status \in StatusInputs : UpdateStatusSelect(u, id, status)
    \/ \E u \in Updates : UpdateStatusUpdate(u)
    \/ \E u \in Updates, code \in generateRandomCode : UpdateStatusInsertCode(u, code)
    \/ \E u \in Updates : UpdateStatusSendAcceptance(u)
    \/ \E u \in Updates : UpdateStatusAcceptanceFails(u)
    \/ \E u \in Updates : UpdateStatusSendRejection(u)
    \/ \E u \in Updates : UpdateStatusRejectionFails(u)
    \/ \E u \in Updates : UpdateStatusCommit(u)
    \/ \E u \in Updates : UpdateStatusThrows(u)
    \/ \E u \in Updates : UpdateStatusRollbackThrows(u)

\* ------------------------------------- POST /api/validate-signup-code
\* A validation that does not look at the block list.
ValidateSignupCodeIgnoresBlock(code) ==
    LET rows == SelectSignupCodes(code)
    IN  IF code = NoCode
        THEN [code |-> code, success |-> FALSE, message |-> "Code is required"]
        ELSE IF rows = {}
        THEN [code |-> code, success |-> FALSE, message |-> "Invalid code"]
        ELSE [code |-> code, success |-> TRUE, message |-> "Valid code"]

\* Lines 2108-2160: the response for a code, from the row that carries it and
\* the block list (the correlated subquery on the row's own email).
ValidateSignupCode(code) ==
    LET rows == SelectSignupCodes(code)
    IN  IF code = NoCode
        THEN [code |-> code, success |-> FALSE, message |-> "Code is required"]
        ELSE IF rows = {}
        THEN [code |-> code, success |-> FALSE, message |-> "Invalid code"]
        ELSE IF (CHOOSE s \in rows : \A o \in rows : s.id <= o.id).email \in blocked_signups
        THEN [code |-> code, success |-> FALSE,
              message |-> "This email is blocked from signing up"]
        ELSE [code |-> code, success |-> TRUE, message |-> "Valid code"]

\* The handler reads and answers; it writes nothing.
ValidateSignupCodeCall(code) ==
    /\ ValidateSignupCode(code).code = code
    /\ UNCHANGED <<tables, signup, upd, activity, staff, events, logsheet_req, lectures>>
    /\ last_call' = NoCall

\* ----------------------------------------- POST /api/block-signup-email
\* A block that replaces the list.
BlockSignupEmailReplaces(email) ==
    /\ email # NoEmail
    /\ blocked_signups' = {email}
    /\ UNCHANGED <<wil_application, signup_codes, student_users, users, signup, upd, activity, staff, events, logsheet_req, lectures>>
    /\ last_call' = NoCall

\* Lines 2172-2192: INSERT INTO blocked_signups.
BlockSignupEmail(email) ==
    /\ email # NoEmail
    /\ blocked_signups' = blocked_signups \cup {email}
    /\ UNCHANGED <<wil_application, signup_codes, student_users, users, signup, upd, activity, staff, events, logsheet_req, lectures>>
    /\ last_call' = NoCall

\* ------------------------------------------------ student activity status
\* The student numbers a client can name: s1 can sign up, s9 never does.
StudentNumbers == {"s1", "s9"}
\* The log dates a client can submit: two early days and one beyond the calendar.
LogDates == {0, 1, MaxDay + 1}

\* email LIKE 'studentNumber@%'
EmailLike(email, studentNumber) == email[1] = studentNumber

\* SELECT .. FROM student_users WHERE email LIKE 'studentNumber@%'
SelectStudent(table, studentNumber) == {row \in table : EmailLike(row.email, studentNumber)}

\* An UPDATE that matches no row.
SetStatusLikeNoRow(table, studentNumber, status) == table

\* UPDATE student_users SET status = ? WHERE email LIKE 'studentNumber@%'
SetStatusLike(table, studentNumber, status) ==
    {IF EmailLike(row.email, studentNumber) THEN [row EXCEPT !.status = status] ELSE row :
        row \in table}

\* A comparison that always finds a difference.
StatusChangedAlways(newStatus, current) == TRUE

\* A comparison that finds no difference from a status an administrator set.
StatusChangedFromActivity(newStatus, current) ==
    newStatus # current /\ current \in {"active", "inactive"}

\* Line 3904: newStatus !== student[0].status, which decides both the UPDATE
\* and the status_changed of the response.
StatusChanged(newStatus, current) == newStatus # current

SetMax(S) == CHOOSE x \in S : \A y \in S : y <= x

\* SELECT MAX(log_date) FROM daily_logsheet WHERE student_number = ?
MaxLogDate(studentNumber) ==
    LET dates == {l.log_date : l \in {k \in daily_logsheet : k.student_number = studentNumber}}
    IN  IF dates = {} THEN {} ELSE {SetMax(dates)}

\* SELECT DATEDIFF(CURDATE(), ?)
DateDiff(curdate, date) == curdate - date

\* The inactivity limit of lines 3893 and 4033, in days.
ActivityLimit == 10

\* The comparison with the limit excluded.
TargetStatusBelowLimit(lastLogDate, curdate) ==
    IF lastLogDate = {} THEN "inactive"
    ELSE IF DateDiff(curdate, SetMax(lastLogDate)) < ActivityLimit THEN "active"
    ELSE "inactive"

\* Lines 3879-3901: the status the recompute aims at, from the latest log date.
TargetStatus(lastLogDate, curdate) ==
    IF lastLogDate = {} THEN "inactive"
    ELSE IF DateDiff(curdate, SetMax(lastLogDate)) <= ActivityLimit THEN "active"
    ELSE "inactive"

\* Lines 1128-1260: POST /api/submit-logsheet, run alone from its SELECT to its
\* INSERT.  A second sheet for the same student and date, or a body without
\* the required fields, is answered 400.  The row of a submission that runs
\* alone is the only one of its pair; its id is left at 0.
SubmitLogsheet(student_number, log_date, complete) ==
    LET existing == {l \in daily_logsheet :
                        l.student_number = student_number /\ l.log_date = log_date}
    IN  /\ daily_logsheet' =
              IF existing # {} \/ ~complete THEN daily_logsheet
              ELSE daily_logsheet \cup
                      {[id |-> 0, student_number |-> student_number, log_date |-> log_date]}
        /\ UNCHANGED <<tables, signup, upd, today, recompute, admin, sweep, staff, events, logsheet_req, lectures>>
        /\ last_call' = Call("submit-logsheet", student_number)

\* Midnight: CURDATE() moves on; a call of the next day does not follow a call
\* of this day in a row.
NextDay ==
    /\ today < MaxDay
    /\ today' = today + 1
    /\ UNCHANGED <<tables, signup, upd, daily_logsheet, recompute, admin, sweep, staff, events, logsheet_req, lectures>>
    /\ last_call' = NoCall

\* Lines 3843-3933: POST /api/update-student-status/:student_number.
UpdateStudentStatus(studentNumber) ==
    LET student == SelectStudent(student_users, studentNumber)
        current == (CHOOSE row \in student : TRUE).status
        lastLogDate == MaxLogDate(studentNumber)
        newStatus == TargetStatus(lastLogDate, today)
        daysSinceLastActivity ==
            IF lastLogDate = {} THEN {} ELSE {DateDiff(today, SetMax(lastLogDate))}
    IN  IF student = {}
        THEN /\ recompute' = [NoRecompute EXCEPT !.student_number = studentNumber,
                                                 !.http = 404,
                                                 !.message = "Student not found"]
             /\ UNCHANGED <<tables, signup, upd, daily_logsheet, today, admin, sweep, staff, events, logsheet_req, lectures>>
             /\ last_call' = Call("update-student-status", studentNumber)
        ELSE /\ student_users' =
                   IF StatusChanged(newStatus, current)
                   THEN SetStatusLike(student_users, studentNumber, newStatus)
                   ELSE student_users
             /\ recompute' =
                   [student_number |-> studentNumber, http |-> 200,
                    message |-> IF lastLogDate = {} THEN "No activity records found"
                                ELSE IF newStatus = "active" THEN "Student reactivated"
                                ELSE "Student set to inactive",
                    status_changed |-> StatusChanged(newStatus, current),
                    data_status |->
                        {row.status : row \in SelectStudent(student_users', studentNumber)},
                    last_activity_date |-> lastLogDate,
                    days_since_last_activity |-> daysSinceLastActivity]
             /\ UNCHANGED <<wil_application, signup_codes, users, blocked_signups,
                            signup, upd, daily_logsheet, today, admin, sweep, staff, events, logsheet_req, lectures>>
             /\ last_call' = Call("update-student-status", studentNumber)

\* ------------------------------------------------ admin status actions
\* Lines 3529-3590: each function hands one mail to transporter.sendMail and
\* swallows its failure; delivered tells whether sendMail accepted the mail.
sendSuspensionEmail(to, delivered) == [kind |-> "suspension", to |-> to, delivered |-> delivered]

sendUnenrollEmail(to, delivered) == [kind |-> "unenroll", to |-> to, delivered |-> delivered]

sendEnrollmentEmail(to, delivered) == [kind |-> "enrollment", to |-> to, delivered |-> delivered]

\* The 404 of the four handlers (lines 3604-3609, 3658-3663, 3711-3716, 3763-3768).
StudentNotFound(op, studentNumber) ==
    [NoAdmin EXCEPT !.op = op, !.student_number = studentNumber, !.http = 404,
                    !.message = "Student not found"]

\* updatedStudent[0] of the SELECT that follows the UPDATE.
UpdatedStudent(table, studentNumber) == CHOOSE row \in SelectStudent(table, studentNumber) : TRUE

\* A suspension that leaves an unenrolled student as it is.
SuspendStudentKeepsUnenrolled(studentNumber, delivered) ==
    /\ IF SelectStudent(student_users, studentNumber) = {}
       THEN /\ admin' = StudentNotFound("suspend-student", studentNumber)
            /\ UNCHANGED student_users
       ELSE /\ student_users' =
                  IF UpdatedStudent(student_users, studentNumber).status = "unenrolled"
                  THEN student_users
                  ELSE SetStatusLike(student_users, studentNumber, "suspended")
            /\ admin' =
                  [NoAdmin EXCEPT
                      !.op = "suspend-student", !.student_number = studentNumber,
                      !.http = 200, !.message = "Student suspended successfully",
                      !.data_status = {UpdatedStudent(student_users', studentNumber).status},
                      !.mails = {sendSuspensionEmail(
                                    UpdatedStudent(student_users', studentNumber).email,
                                    delivered)}]
    /\ UNCHANGED <<wil_application, signup_codes, users, blocked_signups, signup, upd,
                   daily_logsheet, today, recompute, sweep, staff, events, logsheet_req, lectures>>
    /\ last_call' = Call("suspend-student", studentNumber)

\* Lines 3594-3645: POST /api/suspend-student/:student_number.
SuspendStudent(studentNumber, delivered) ==
    /\ IF SelectStudent(student_users, studentNumber) = {}
       THEN /\ admin' = StudentNotFound("suspend-student", studentNumber)
            /\ UNCHANGED student_users
       ELSE /\ student_users' = SetStatusLike(student_users, studentNumber, "suspended")
            /\ admin' =
                  [NoAdmin EXCEPT
                      !.op = "suspend-student", !.student_number = studentNumber,
                      !.http = 200, !.message = "Student suspended successfully",
                      !.data_status = {UpdatedStudent(student_users', studentNumber).status},
                      !.mails = {sendSuspensionEmail(
                                    UpdatedStudent(student_users', studentNumber).email,
                                    delivered)}]
    /\ UNCHANGED <<wil_application, signup_codes, users, blocked_signups, signup, upd,
                   daily_logsheet, today, recompute, sweep, staff, events, logsheet_req, lectures>>
    /\ last_call' = Call("suspend-student", studentNumber)

\* Lines 3648-3699: POST /api/unenroll-student/:student_number.
UnenrollStudent(studentNumber, delivered) ==
    /\ IF SelectStudent(student_users, studentNumber) = {}
       THEN /\ admin' = StudentNotFound("unenroll-student", studentNumber)
            /\ UNCHANGED student_users
       ELSE /\ student_users' = SetStatusLike(student_users, studentNumber, "unenrolled")
            /\ admin' =
                  [NoAdmin EXCEPT
                      !.op = "unenroll-student", !.student_number = studentNumber,
                      !.http = 200, !.message = "Student unenrolled successfully",
                      !.data_status = {UpdatedStudent(student_users', studentNumber).status},
                      !.mails = {sendUnenrollEmail(
                                    UpdatedStudent(student_users', studentNumber).email,
                                    delivered)}]
    /\ UNCHANGED <<wil_application, signup_codes, users, blocked_signups, signup, upd,
                   daily_logsheet, today, recompute, sweep, staff, events, logsheet_req, lectures>>
    /\ last_call' = Call("unenroll-student", studentNumber)

\* Lines 3702-3750: POST /api/enroll-student/:student_number.
EnrollStudent(studentNumber, delivered) ==
    /\ IF SelectStudent(student_users, studentNumber) = {}
       THEN /\ admin' = StudentNotFound("enroll-student", studentNumber)
            /\ UNCHANGED student_users
       ELSE /\ student_users' = SetStatusLike(student_users, studentNumber, "active")
            /\ admin' =
                  [NoAdmin EXCEPT
                      !.op = "enroll-student", !.student_number = studentNumber,
                      !.http = 200, !.message = "Student enrolled successfully",
                      !.data_status = {UpdatedStudent(student_users', studentNumber).status},
                      !.mails = {sendEnrollmentEmail(
                                    UpdatedStudent(student_users', studentNumber).email,
                                    delivered)}]
    /\ UNCHANGED <<wil_application, signup_codes, users, blocked_signups, signup, upd,
                   daily_logsheet, today, recompute, sweep, staff, events, logsheet_req, lectures>>
    /\ last_call' = Call("enroll-student", studentNumber)

\* A reactivation that does not look at the age of the latest logsheet.
ReactivateStudentNoGate(studentNumber) ==
    LET lastLogDate == MaxLogDate(studentNumber)
    IN  /\ IF SelectStudent(student_users, studentNumber) = {}
           THEN /\ admin' = StudentNotFound("reactivate-student", studentNumber)
                /\ UNCHANGED student_users
           ELSE IF lastLogDate = {}
           THEN /\ admin' =
                      [NoAdmin EXCEPT
                          !.op = "reactivate-student", !.student_number = studentNumber,
                          !.http = 400,
                          !.message = "Cannot reactivate - no activity records found"]
                /\ UNCHANGED student_users
           ELSE /\ student_users' = SetStatusLike(student_users, studentNumber, "active")
                /\ admin' =
                      [NoAdmin EXCEPT
                          !.op = "reactivate-student", !.student_number = studentNumber,
                          !.http = 200, !.message = "Student reactivated successfully",
                          !.data_status =
                              {UpdatedStudent(student_users', studentNumber).status},
                          !.last_activity_date = lastLogDate,
                          !.days_since_last_activity =
                              {DateDiff(today, SetMax(lastLogDate))}]
        /\ UNCHANGED <<wil_application, signup_codes, users, blocked_signups, signup, upd,
                       daily_logsheet, today, recompute, sweep, staff, events, logsheet_req, lectures>>
        /\ last_call' = Call("reactivate-student", studentNumber)

\* Lines 3753-3840: POST /api/reactivate-student/:student_number.  No mail is
\* sent on any path.
ReactivateStudent(studentNumber) ==
    LET lastLogDate == MaxLogDate(studentNumber)
    IN  /\ IF SelectStudent(student_users, studentNumber) = {}
           THEN /\ admin' = StudentNotFound("reactivate-student", studentNumber)
                /\ UNCHANGED student_users
           ELSE IF lastLogDate = {}
           THEN /\ admin' =
                      [NoAdmin EXCEPT
                          !.op = "reactivate-student", !.student_number = studentNumber,
                          !.http = 400,
                          !.message = "Cannot reactivate - no activity records found"]
                /\ UNCHANGED student_users
           ELSE IF DateDiff(today, SetMax(lastLogDate)) > ActivityLimit
           THEN /\ admin' =
                      [NoAdmin EXCEPT
                          !.op = "reactivate-student", !.student_number = studentNumber,
                          !.http = 400,
                          !.message = "Cannot reactivate - last activity too long ago",
                          !.last_activity_date = lastLogDate,
                          !.days_since_last_activity =
                              {DateDiff(today, SetMax(lastLogDate))}]
                /\ UNCHANGED student_users
           ELSE /\ student_users' = SetStatusLike(student_users, studentNumber, "active")
                /\ admin' =
                      [NoAdmin EXCEPT
                          !.op = "reactivate-student", !.student_number = studentNumber,
                          !.http = 200, !.message = "Student reactivated successfully",
                          !.data_status =
                              {UpdatedStudent(student_users', studentNumber).status},
                          !.last_activity_date = lastLogDate,
                          !.days_since_last_activity =
                              {DateDiff(today, SetMax(lastLogDate))}]
        /\ UNCHANGED <<wil_application, signup_codes, users, blocked_signups, signup, upd,
                       daily_logsheet, today, recompute, sweep, staff, events, logsheet_req, lectures>>
        /\ last_call' = Call("reactivate-student", studentNumber)

AdminOps == {"suspend-student", "unenroll-student", "enroll-student", "reactivate-student"}

AdminAction ==
    \/ \E sn \in StudentNumbers, delivered \in BOOLEAN : SuspendStudent(sn, delivered)
    \/ \E sn \in StudentNumbers, delivered \in BOOLEAN : UnenrollStudent(sn, delivered)
    \/ \E sn \in StudentNumbers, delivered \in BOOLEAN : EnrollStudent(sn, delivered)
    \/ \E sn \in StudentNumbers : ReactivateStudent(sn)

\* ------------------------- POST /api/update-status-for-inactive-students
\* The orders in which a SELECT without ORDER BY can return a set of rows.
Orderings(S) ==
    {q \in [1..Cardinality(S) -> S] : \A a, b \in 1..Cardinality(S) : q[a] = q[b] => a = b}

\* Lines 3987-4001: the snapshot of the active students; none is answered at once.
SweepSelect(activeStudents) ==
    /\ sweep.pc \in {"idle", "done"}
    /\ activeStudents \in Orderings({row.email : row \in {x \in student_users : x.status = "active"}})
    /\ sweep' =
          IF Len(activeStudents) = 0
          THEN [IdleSweep EXCEPT !.pc = "done", !.http = 200,
                                 !.message = "No active students found"]
          ELSE [IdleSweep EXCEPT !.pc = "loop", !.activeStudents = activeStudents, !.i = 1]
    /\ UNCHANGED <<tables, signup, upd, daily_logsheet, today, recompute, admin, staff, events, logsheet_req, lectures>>
    /\ last_call' = Call("update-status-for-inactive-students", "")

\* Lines 4004-4046: one turn of the loop, for the student at position i: the
\* latest log date, the distance in days, and the UPDATE by the student's
\* email when there is no logsheet or the distance is over the limit.  The
\* response follows the last turn.
SweepStudent ==
    /\ sweep.pc = "loop"
    /\ LET student == sweep.activeStudents[sweep.i]
           studentNumber == student[1]
           lastLogDate == MaxLogDate(studentNumber)
           inactivate ==
               \/ lastLogDate = {}
               \/ DateDiff(today, SetMax(lastLogDate)) > ActivityLimit
           last == sweep.i = Len(sweep.activeStudents)
       IN  /\ student_users' =
                 IF inactivate
                 THEN {IF row.email = student THEN [row EXCEPT !.status = "inactive"] ELSE row :
                          row \in student_users}
                 ELSE student_users
           /\ sweep' =
                 [sweep EXCEPT
                     !.i = @ + 1,
                     !.updatedStudents = IF inactivate THEN Append(@, studentNumber) ELSE @,
                     !.pc = IF last THEN "done" ELSE "loop",
                     !.http = IF last THEN 200 ELSE 0,
                     !.message = IF last THEN "Student statuses updated successfully" ELSE ""]
    /\ UNCHANGED <<wil_application, signup_codes, users, blocked_signups, signup, upd,
                   daily_logsheet, today, recompute, admin, staff, events, logsheet_req, lectures>>
    /\ last_call' = Call("update-status-for-inactive-students", "")

\* Lines 4047-4054: a query or an update of the turn for the student at
\* position i throws; the one catch around the whole loop answers 500.
SweepThrows ==
    /\ sweep.pc = "loop"
    /\ sweep' = [sweep EXCEPT !.pc = "done", !.http = 500,
                              !.message = "Internal server error during status update"]
    /\ UNCHANGED <<tables, signup, upd, daily_logsheet, today, recompute, admin, staff, events, logsheet_req, lectures>>
    /\ last_call' = Call("update-status-for-inactive-students", "")

Sweep ==
    \/ \E activeStudents \in Orderings(Emails) \cup Orderings({}) \cup
                             UNION {Orderings({e}) : e \in Emails} :
          SweepSelect(activeStudents)
    \/ SweepStudent
    \/ SweepThrows

\* The students whose logsheets the sweep reads.
SweepStudents == {"s1", "s2"}

\* Redemption with its environment: both redeeming handlers, acceptances of the
\* application (the only source of codes), and the block list.
NextRedeem ==
    \/ Signup
    \/ \E u \in Updates : UpdateStatusSelect(u, 1, "Accepted")
    \/ \E u \in Updates : UpdateStatusUpdate(u)
    \/ \E u \in Updates, code \in generateRandomCode : UpdateStatusInsertCode(u, code)
    \/ \E u \in Updates : UpdateStatusSendAcceptance(u)
    \/ \E u \in Updates : UpdateStatusAcceptanceFails(u)
    \/ \E u \in Updates : UpdateStatusCommit(u)
    \/ \E u \in Updates : UpdateStatusThrows(u)
    \/ \E u \in Updates : UpdateStatusRollbackThrows(u)
    \/ \E code \in Codes \cup {NoCode} : ValidateSignupCodeCall(code)
    \/ \E email \in Emails : BlockSignupEmail(email)

SpecRedeem == Init /\ [][NextRedeem]_vars

\* Redemption of the code of a single acceptance.
NextSignup ==
    \/ Signup
    \/ UpdateStatusSelect(1, 1, "Accepted")
    \/ \E u \in Updates : UpdateStatusUpdate(u)
    \/ \E u \in Updates, code \in generateRandomCode : UpdateStatusInsertCode(u, code)
    \/ \E u \in Updates : UpdateStatusSendAcceptance(u)
    \/ \E u \in Updates : UpdateStatusAcceptanceFails(u)
    \/ \E u \in Updates : UpdateStatusCommit(u)
    \/ \E u \in Updates : UpdateStatusThrows(u)
    \/ \E u \in Updates : UpdateStatusRollbackThrows(u)
    \/ \E code \in Codes \cup {NoCode} : ValidateSignupCodeCall(code)
    \/ \E email \in Emails : BlockSignupEmail(email)

SpecSignup == Init /\ [][NextSignup]_vars

\* Status updates alone: every input of the handler, concurrent calls, no redemption.
NextAccept ==
    \/ UpdateStatus
    \/ \E code \in Codes \cup {NoCode} : ValidateSignupCodeCall(code)

SpecAccept == Init /\ [][NextAccept]_vars

\* Student activity: the state after application 1 was accepted with code C1
\* and student s1 signed up with it, then logsheets, the calendar and the
\* status recompute.
InitActivity ==
    /\ wil_application =
          [id \in {1} |->
              [id |-> id, student_number |-> "s1", email |-> <<"s1", "mut">>,
               status |-> "Accepted"]]
    /\ signup_codes = {}
    /\ student_users = {StudentUsersRow(<<"s1", "mut">>, BcryptHash("pw"))}
    /\ users = {UsersRow(<<"s1", "mut">>, BcryptHash("pw"))}
    /\ blocked_signups = {}
    /\ signup = [r \in Signups |->
          IF r = 1
          THEN [IdleSignup EXCEPT !.pc = "done", !.route = "student_signup",
                                  !.code = "C1", !.codeRows = {1}, !.status = 201,
                                  !.message = CreatedMessage("student_signup"),
                                  !.acquired = 1, !.released = 1]
          ELSE IdleSignup]
    /\ upd = [u \in Updates |->
          IF u = 1
          THEN [IdleUpdate EXCEPT !.pc = "done", !.id = 1, !.status = "Accepted",
                                  !.generatedCode = "C1",
                                  !.sent = {[kind |-> "acceptance", to |-> <<"s1", "mut">>,
                                             code |-> "C1"]},
                                  !.http = 200, !.message = "Status updated successfully",
                                  !.acquired = 1, !.released = 1]
          ELSE IdleUpdate]
    /\ daily_logsheet = {}
    /\ today = 0
    /\ recompute = NoRecompute
    /\ admin = NoAdmin
    /\ sweep = IdleSweep
    /\ last_call = NoCall
    /\ InitStaff
    /\ InitEvents
    /\ InitLogsheetReqs
    /\ InitLectures

NextActivity ==
    \/ \E sn \in StudentNumbers, d \in LogDates, complete \in BOOLEAN : SubmitLogsheet(sn, d, complete)
    \/ NextDay
    \/ \E sn \in StudentNumbers : UpdateStudentStatus(sn)

SpecActivity == InitActivity /\ [][NextActivity]_vars

\* The admin status endpoints on the one student, with logsheets and the calendar.
NextAdmin ==
    \/ \E sn \in StudentNumbers, d \in LogDates, complete \in BOOLEAN : SubmitLogsheet(sn, d, complete)
    \/ NextDay
    \/ AdminAction

SpecAdmin == InitActivity /\ [][NextAdmin]_vars

\* The bulk sweep: the state after application 1 was accepted twice, with codes
\* C1 and C2, and students s1 and s2 signed up with them; then logsheets, the
\* calendar, the sweep, and enrolments that make a student active again.
InitSweep ==
    /\ wil_application =
          [id \in {1} |->
              [id |-> id, student_number |-> "s1", email |-> <<"s1", "mut">>,
               status |-> "Accepted"]]
    /\ signup_codes = {}
    /\ student_users = {StudentUsersRow(<<"s1", "mut">>, BcryptHash("pw")),
                        StudentUsersRow(<<"s2", "mut">>, BcryptHash("pw"))}
    /\ users = {UsersRow(<<"s1", "mut">>, BcryptHash("pw")),
                UsersRow(<<"s2", "mut">>, BcryptHash("pw"))}
    /\ blocked_signups = {}
    /\ signup = [r \in Signups |->
          IF r <= 2
          THEN [IdleSignup EXCEPT !.pc = "done", !.route = "student_signup",
                                  !.code = IF r = 1 THEN "C1" ELSE "C2",
                                  !.codeRows = {r}, !.status = 201,
                                  !.message = CreatedMessage("student_signup"),
                                  !.acquired = 1, !.released = 1]
          ELSE IdleSignup]
    /\ upd = [u \in Updates |->
          IF u <= 2
          THEN [IdleUpdate EXCEPT !.pc = "done", !.id = 1, !.status = "Accepted",
                                  !.generatedCode = IF u = 1 THEN "C1" ELSE "C2",
                                  !.sent = {[kind |-> "acceptance", to |-> <<"s1", "mut">>,
                                             code |-> IF u = 1 THEN "C1" ELSE "C2"]},
                                  !.http = 200, !.message = "Status updated successfully",
                                  !.acquired = 1, !.released = 1]
          ELSE IdleUpdate]
    /\ daily_logsheet = {}
    /\ today = 0
    /\ recompute = NoRecompute
    /\ admin = NoAdmin
    /\ sweep = IdleSweep
    /\ last_call = NoCall
    /\ InitStaff
    /\ InitEvents
    /\ InitLogsheetReqs
    /\ InitLectures

NextSweep ==
    \/ \E sn \in SweepStudents, d \in LogDates : SubmitLogsheet(sn, d, TRUE)
    \/ NextDay
    \/ Sweep
    \/ \E sn \in SweepStudents : EnrollStudent(sn, TRUE)

SpecSweep == InitSweep /\ [][NextSweep]_vars

\* The recompute after an administrator's suspension or unenrolment, with
\* logsheets and the calendar.
NextRecomputeAdmin ==
    \/ \E d \in {0, 1} : SubmitLogsheet("s1", d, TRUE)
    \/ NextDay
    \/ \E sn \in StudentNumbers : UpdateStudentStatus(sn)
    \/ \E sn \in StudentNumbers : SuspendStudent(sn, TRUE)
    \/ \E sn \in StudentNumbers : UnenrollStudent(sn, TRUE)

SpecRecomputeAdmin == InitActivity /\ [][NextRecomputeAdmin]_vars

\* The sweep with nothing at work beside it: logsheets, the calendar and
\* enrolments act only before a sweep starts and after it has answered.
NextSweepAlone ==
    \/ Sweep
    \/ /\ sweep.pc # "loop"
       /\ \/ \E sn \in SweepStudents : SubmitLogsheet(sn, 0, TRUE)
          \/ NextDay
          \/ \E sn \in SweepStudents : EnrollStudent(sn, TRUE)

SpecSweepAlone == InitSweep /\ [][NextSweepAlone]_vars

\* The sweep with an administrator at work: suspensions, unenrolments and
\* enrolments that fall between the turns of the sweep's loop.
NextSweepAdmin ==
    \/ Sweep
    \/ \E sn \in SweepStudents, delivered \in BOOLEAN : SuspendStudent(sn, delivered)
    \/ \E sn \in SweepStudents, delivered \in BOOLEAN : UnenrollStudent(sn, delivered)
    \/ \E sn \in SweepStudents : EnrollStudent(sn, TRUE)

SpecSweepAdmin == InitSweep /\ [][NextSweepAdmin]_vars

\* Redemption by an email that has an account already: the state after the
\* first acceptance and the first student signup, then further acceptances and
\* redemptions.
SpecDuplicate == InitActivity /\ [][NextRedeem]_vars

\* The block list with two applicants: applications 1 (s1@mut) and 3 (s2@mut)
\* are both there, either can be accepted, any email can be blocked.
InitTwoApplications ==
    /\ wil_application =
          [id \in {1, 3} |->
              [id |-> id,
               student_number |-> IF id = 1 THEN "s1" ELSE "s2",
               email |-> IF id = 1 THEN <<"s1", "mut">> ELSE <<"s2", "mut">>,
               status |-> "Pending"]]
    /\ signup_codes = {}
    /\ student_users = {}
    /\ users = {}
    /\ blocked_signups = {}
    /\ signup = [r \in Signups |-> IdleSignup]
    /\ upd = [u \in Updates |-> IdleUpdate]
    /\ daily_logsheet = {}
    /\ today = 0
    /\ recompute = NoRecompute
    /\ admin = NoAdmin
    /\ sweep = IdleSweep
    /\ last_call = NoCall
    /\ InitStaff
    /\ InitEvents
    /\ InitLogsheetReqs
    /\ InitLectures

NextBlock ==
    \/ \E u \in Updates, id \in {1, 3} : UpdateStatusSelect(u, id, "Accepted")
    \/ \E u \in Updates : UpdateStatusUpdate(u)
    \/ \E u \in Updates, code \in generateRandomCode : UpdateStatusInsertCode(u, code)
    \/ \E u \in Updates : UpdateStatusSendAcceptance(u)
    \/ \E u \in Updates : UpdateStatusCommit(u)
    \/ \E code \in Codes \cup {NoCode} : ValidateSignupCodeCall(code)
    \/ \E email \in Emails : BlockSignupEmail(email)
    \/ \E route \in Routes, email \in Emails, code \in Codes :
          SignupLookup(1, route, email, "pw", code)
    \/ SignupInsertStudent(1)
    \/ SignupInsertUsers(1)
    \/ SignupDeleteCode(1)
    \/ SignupCommitted(1)

SpecBlock == InitTwoApplications /\ [][NextBlock]_vars

\* ===================================================================
\* Staff codes, staff and mentor signup, event codes
\* ===================================================================
others == <<tables, signup, upd, activity, logsheet_req, lectures>>

\* SELECT * FROM staff_codes WHERE code = ?
SelectStaffCodes(code) == {s \in staff_codes : s.code = code}

\* ------------------------------------------------ POST /api/staff_codes
\* Lines 469-487: the body is read and validated.
StaffCodesStart(i, staff_name, staff_email) ==
    /\ staff_code_req[i].pc = "idle"
    /\ IF i = 1 THEN TRUE ELSE staff_code_req[i - 1].pc # "idle"
    /\ LET req == [IdleStaffCodeReq EXCEPT !.staff_name = staff_name,
                                           !.staff_email = staff_email]
       IN  IF staff_name = "" \/ staff_email = NoAddress
           THEN staff_code_req' = [staff_code_req EXCEPT ![i] =
                    [IdleStaffCodeReq EXCEPT !.pc = "done", !.http = 400,
                                             !.message = "Staff name and email are required"]]
           ELSE IF ~emailRegexTest(staff_email)
           THEN staff_code_req' = [staff_code_req EXCEPT ![i] =
                    [IdleStaffCodeReq EXCEPT !.pc = "done", !.http = 400,
                                             !.message = "Invalid email format"]]
           ELSE staff_code_req' = [staff_code_req EXCEPT ![i] = [req EXCEPT !.pc = "generate"]]
    /\ UNCHANGED <<others, events, staff_codes, staff_users, mentor_users, staff_signup>>
    /\ last_call' = NoCall

\* A pass of the loop that does not count itself.
StaffCodesAttemptUncounted(i, code) ==
    /\ staff_code_req[i].pc = "generate"
    /\ ~staff_code_req[i].isUnique
    /\ staff_code_req[i].attempts < maxAttempts
    /\ staff_code_req' = [staff_code_req EXCEPT ![i] =
          [@ EXCEPT !.code = code, !.isUnique = (SelectStaffCodes(code) = {})]]
    /\ UNCHANGED <<others, events, staff_codes, staff_users, mentor_users, staff_signup>>
    /\ last_call' = NoCall

\* Lines 495-503: one pass of the while loop: generateStaffCode(), the SELECT
\* of the generated value, isUnique, attempts++.
StaffCodesAttempt(i, code) ==
    /\ staff_code_req[i].pc = "generate"
    /\ ~staff_code_req[i].isUnique
    /\ staff_code_req[i].attempts < maxAttempts
    /\ staff_code_req' = [staff_code_req EXCEPT ![i] =
          [@ EXCEPT !.code = code, !.isUnique = (SelectStaffCodes(code) = {}),
                    !.attempts = @ + 1]]
    /\ UNCHANGED <<others, events, staff_codes, staff_users, mentor_users, staff_signup>>
    /\ last_call' = NoCall

\* Lines 505-510: the loop has ended without a unique value: 500.
StaffCodesExhausted(i) ==
    /\ staff_code_req[i].pc = "generate"
    /\ ~staff_code_req[i].isUnique
    /\ staff_code_req[i].attempts >= maxAttempts
    /\ staff_code_req' = [staff_code_req EXCEPT ![i] =
          [@ EXCEPT !.pc = "done", !.http = 500,
                    !.message = "Failed to generate unique staff code"]]
    /\ UNCHANGED <<others, events, staff_codes, staff_users, mentor_users, staff_signup>>
    /\ last_call' = NoCall

\* Lines 512-516: INSERT INTO staff_codes, with the value that passed the check.
StaffCodesInsert(i) ==
    /\ staff_code_req[i].pc = "generate"
    /\ staff_code_req[i].isUnique
    /\ staff_codes' = staff_codes \cup
          {[id |-> i, code |-> staff_code_req[i].code,
            staff_name |-> staff_code_req[i].staff_name,
            staff_email |-> staff_code_req[i].staff_email]}
    /\ staff_code_req' = [staff_code_req EXCEPT ![i] =
          [@ EXCEPT !.pc = "mail", !.inserted = {i}]]
    /\ UNCHANGED <<others, events, staff_users, mentor_users, staff_signup>>
    /\ last_call' = NoCall

\* Lines 518-528, 549-570: sendStaffCodeEmail is awaited; the mail is accepted
\* and the answer is 201.
StaffCodesMailSent(i) ==
    /\ staff_code_req[i].pc = "mail"
    /\ staff_code_req' = [staff_code_req EXCEPT ![i] =
          [@ EXCEPT !.pc = "done", !.mails = 1, !.http = 201,
                    !.message = "Staff code created and sent via email"]]
    /\ UNCHANGED <<others, events, staff_codes, staff_users, mentor_users, staff_signup>>
    /\ last_call' = NoCall

\* What the client gets when an async handler rejects: nothing from a router
\* that does not look at the promise, 500 from one that does.
RejectedHandler == {0, 500}

\* Lines 529-540, 565-568: sendMail fails and sendStaffCodeEmail throws.  The
\* catch block matches the message, calls res.status(201) and then reads
\* `code`, which is declared with let inside the try block (line 490) and is
\* not in scope in the catch block: a ReferenceError leaves the handler, json
\* is never called.
StaffCodesMailFails(i, http) ==
    /\ staff_code_req[i].pc = "mail"
    /\ staff_code_req' = [staff_code_req EXCEPT ![i] =
          [@ EXCEPT !.pc = "done", !.http = http, !.message = ""]]
    /\ UNCHANGED <<others, events, staff_codes, staff_users, mentor_users, staff_signup>>
    /\ last_call' = NoCall

\* Lines 529-545: a query throws (the SELECT of the loop or the INSERT): 500.
StaffCodesThrows(i) ==
    /\ staff_code_req[i].pc = "generate"
    /\ staff_code_req' = [staff_code_req EXCEPT ![i] =
          [@ EXCEPT !.pc = "done", !.http = 500, !.message = "Internal server error"]]
    /\ UNCHANGED <<others, events, staff_codes, staff_users, mentor_users, staff_signup>>
    /\ last_call' = NoCall

StaffCodes ==
    \/ \E i \in StaffCodeReqs, staff_name \in NameInputs, staff_email \in AddressInputs :
          StaffCodesStart(i, staff_name, staff_email)
    \/ \E i \in StaffCodeReqs, code \in StaffCodeValues : StaffCodesAttempt(i, code)
    \/ \E i \in StaffCodeReqs : StaffCodesExhausted(i)
    \/ \E i \in StaffCodeReqs : StaffCodesInsert(i)
    \/ \E i \in StaffCodeReqs : StaffCodesMailSent(i)
    \/ \E i \in StaffCodeReqs, http \in RejectedHandler : StaffCodesMailFails(i, http)
    \/ \E i \in StaffCodeReqs : StaffCodesThrows(i)

\* ------------------------- POST /api/staff_Signup, POST /api/mentor_signup
StaffSignupOpen(r) == staff_signup[r].pc \in {"insert", "delete_code", "commit"}

\* The account table a route writes: staff_users (286) or mentor_users (337).
AccountsOf(route) == IF route = "staff_Signup" THEN staff_users ELSE mentor_users

StaffCreatedMessage(route) ==
    IF route = "staff_Signup" THEN "User registered successfully and code deleted"
    ELSE "Mentor registered successfully and code deleted"

\* The response of a staff or mentor signup and the finally block after it.
StaffSignupRespond(r, status, message) ==
    staff_signup' = [staff_signup EXCEPT ![r] =
        [@ EXCEPT !.pc = "done", !.status = status, !.message = message,
                  !.ins = {}, !.deleted = {}, !.released = Release(@)]]

\* Lines 259-281 (312-332): the code check, getConnection, beginTransaction
\* and the lookup of the code in staff_codes.
StaffSignupLookup(r, route, email, code) ==
    /\ staff_signup[r].pc = "idle"
    /\ IF r = 1 THEN TRUE ELSE staff_signup[r - 1].pc # "idle"
    /\ LET req == [IdleStaffSignup EXCEPT
                      !.route = route, !.email = email, !.code = code,
                      !.redeemed_before =
                          \E q \in StaffSignups : /\ staff_signup[q].status = 201
                                                  /\ staff_signup[q].code = code]
           rows == SelectStaffCodes(code)
       IN  IF code = NoCode
           THEN staff_signup' = [staff_signup EXCEPT ![r] =
                    [req EXCEPT !.pc = "done", !.status = 400,
                                !.message = "Signup code is required"]]
           ELSE IF rows = {}
           THEN staff_signup' = [staff_signup EXCEPT ![r] =
                    [req EXCEPT !.pc = "done", !.status = 400,
                                !.message = InvalidCodeMessage,
                                !.acquired = 1, !.released = Release(0)]]
           ELSE staff_signup' = [staff_signup EXCEPT ![r] =
                    [req EXCEPT !.pc = "insert", !.acquired = 1,
                                !.rows = {s.id : s \in rows}]]
    /\ UNCHANGED <<others, events, staff_codes, staff_users, mentor_users, staff_code_req>>
    /\ last_call' = NoCall

\* Lines 283-287 (334-338): bcrypt.hash and the INSERT into the route's
\* account table; a committed row with the email makes it fail with
\* ER_DUP_ENTRY (298-302, 348-353), an uncommitted one makes it wait.
StaffSignupInsert(r) ==
    /\ staff_signup[r].pc = "insert"
    /\ \A q \in StaffSignups \ {r} :
          ~(/\ StaffSignupOpen(q)
            /\ staff_signup[q].route = staff_signup[r].route
            /\ staff_signup[r].email \in EmailsOf(staff_signup[q].ins))
    /\ IF staff_signup[r].email \in EmailsOf(AccountsOf(staff_signup[r].route))
       THEN StaffSignupRespond(r, 400, "Email already exists")
       ELSE staff_signup' = [staff_signup EXCEPT ![r] =
                [@ EXCEPT !.pc = "delete_code",
                          !.ins = {UsersRow(staff_signup[r].email, BcryptHash("pw"))}]]
    /\ UNCHANGED <<others, events, staff_codes, staff_users, mentor_users, staff_code_req>>
    /\ last_call' = NoCall

\* Line 290 (341): DELETE FROM staff_codes WHERE code = ?, on the rows that
\* carry the code now; it waits for an uncommitted delete of such a row.
StaffSignupDeleteCode(r) ==
    /\ staff_signup[r].pc = "delete_code"
    /\ LET rows == {s.id : s \in SelectStaffCodes(staff_signup[r].code)}
       IN  /\ \A q \in StaffSignups \ {r} :
                 ~(StaffSignupOpen(q) /\ staff_signup[q].deleted \cap rows # {})
           /\ staff_signup' = [staff_signup EXCEPT ![r] =
                 [@ EXCEPT !.pc = "commit", !.deleted = rows]]
    /\ UNCHANGED <<others, events, staff_codes, staff_users, mentor_users, staff_code_req>>
    /\ last_call' = NoCall

\* Lines 292-296 (343-346): commit, 201: the account row and the delete of
\* the code reach the tables together.
StaffSignupCommitted(r) ==
    /\ staff_signup[r].pc = "commit"
    /\ IF staff_signup[r].route = "staff_Signup"
       THEN /\ staff_users' = staff_users \cup staff_signup[r].ins
            /\ UNCHANGED mentor_users
       ELSE /\ mentor_users' = mentor_users \cup staff_signup[r].ins
            /\ UNCHANGED staff_users
    /\ staff_codes' = {s \in staff_codes : s.id \notin staff_signup[r].deleted}
    /\ StaffSignupRespond(r, 201, StaffCreatedMessage(staff_signup[r].route))
    /\ UNCHANGED <<others, events, staff_code_req>>
    /\ last_call' = NoCall

\* Lines 297-303 (347-355): a statement of the open transaction throws
\* something other than ER_DUP_ENTRY: rollback, 500.
StaffSignupThrows(r) ==
    /\ StaffSignupOpen(r)
    /\ StaffSignupRespond(r, 500, "Signup failed")
    /\ UNCHANGED <<others, events, staff_codes, staff_users, mentor_users, staff_code_req>>
    /\ last_call' = NoCall

\* Lines 297-298, 304-306 (347-348, 356-358): connection.rollback() in the
\* catch block throws: the finally block runs, no response is sent.
StaffSignupRollbackThrows(r) ==
    /\ StaffSignupOpen(r)
    /\ StaffSignupRespond(r, 0, "")
    /\ UNCHANGED <<others, events, staff_codes, staff_users, mentor_users, staff_code_req>>
    /\ last_call' = NoCall

StaffSignup ==
    \/ \E r \in StaffSignups, route \in StaffRoutes, email \in Emails,
          code \in StaffCodeValues \cup {NoCode} : StaffSignupLookup(r, route, email, code)
    \/ \E r \in StaffSignups : StaffSignupInsert(r)
    \/ \E r \in StaffSignups : StaffSignupDeleteCode(r)
    \/ \E r \in StaffSignups : StaffSignupCommitted(r)
    \/ \E r \in StaffSignups : StaffSignupThrows(r)
    \/ \E r \in StaffSignups : StaffSignupRollbackThrows(r)

\* --------------------------------------------- POST /api/create-event-code
\* SELECT * FROM event_codes WHERE event_code = ?
SelectEventCodes(code) == {e \in event_codes : e.event_code = code}

\* Lines 2386-2412: the body is validated, the first code is generated and
\* looked up in event_codes.
EventCodeStart(i, guest_name, guest_email, code) ==
    /\ event_code_req[i].pc = "idle"
    /\ IF i = 1 THEN TRUE ELSE event_code_req[i - 1].pc # "idle"
    /\ LET req == [IdleEventCodeReq EXCEPT !.guest_email = guest_email]
       IN  IF guest_name = "" \/ guest_email = NoAddress
           THEN event_code_req' = [event_code_req EXCEPT ![i] =
                    [IdleEventCodeReq EXCEPT !.pc = "done", !.http = 400,
                                             !.message = "Guest name and email are required"]]
           ELSE event_code_req' = [event_code_req EXCEPT ![i] =
                    [req EXCEPT !.pc = "check", !.event_code = code,
                                !.existingCodes = (SelectEventCodes(code) # {})]]
    /\ UNCHANGED <<others, staff, event_codes>>
    /\ last_call' = NoCall

\* A loop body that generates nothing new.
EventCodeRegenerateSame(i, code) ==
    /\ event_code_req[i].pc = "check"
    /\ event_code_req[i].existingCodes
    /\ event_code_req' = [event_code_req EXCEPT ![i] = [@ EXCEPT !.regenerated = TRUE]]
    /\ UNCHANGED <<others, staff, event_codes>>
    /\ last_call' = NoCall

\* Lines 2415-2421: the body of while (existingCodes.length > 0): a new value
\* and its lookup.  Nothing counts the passes.
EventCodeRegenerate(i, code) ==
    /\ event_code_req[i].pc = "check"
    /\ event_code_req[i].existingCodes
    /\ event_code_req' = [event_code_req EXCEPT ![i] =
          [@ EXCEPT !.event_code = code,
                    !.existingCodes = (SelectEventCodes(code) # {}),
                    !.regenerated = TRUE]]
    /\ UNCHANGED <<others, staff, event_codes>>
    /\ last_call' = NoCall

\* The loop body when the generator returns a value that no row carries.
EventCodeRegenerateFresh(i) ==
    \E code \in EventCodeValues :
        /\ SelectEventCodes(code) = {}
        /\ EventCodeRegenerate(i, code)

\* Lines 2423-2427: INSERT INTO event_codes, once the last lookup was empty.
EventCodeInsert(i) ==
    /\ event_code_req[i].pc = "check"
    /\ ~event_code_req[i].existingCodes
    /\ event_codes' = event_codes \cup
          {[id |-> i, event_code |-> event_code_req[i].event_code,
            guest_email |-> event_code_req[i].guest_email]}
    /\ event_code_req' = [event_code_req EXCEPT ![i] =
          [@ EXCEPT !.pc = "mail", !.inserted = {i}]]
    /\ UNCHANGED <<others, staff>>
    /\ last_call' = NoCall

\* Lines 2429-2443, 2447-2468: sendEventCodeEmail is awaited: 201 when the
\* mail is accepted; when sendMail fails the function throws and the catch
\* block answers 500 with the error's message.
EventCodeMail(i, delivered) ==
    /\ event_code_req[i].pc = "mail"
    /\ event_code_req' = [event_code_req EXCEPT ![i] =
          IF delivered
          THEN [@ EXCEPT !.pc = "done", !.mails = 1, !.http = 201,
                         !.message = "Event code created successfully and emailed"]
          ELSE [@ EXCEPT !.pc = "done", !.http = 500,
                         !.message = "Event code created but failed to send email"]]
    /\ UNCHANGED <<others, staff, event_codes>>
    /\ last_call' = NoCall

\* Lines 2436-2442: a query throws (a lookup or the INSERT): 500.
EventCodeThrows(i) ==
    /\ event_code_req[i].pc = "check"
    /\ event_code_req' = [event_code_req EXCEPT ![i] =
          [@ EXCEPT !.pc = "done", !.http = 500, !.message = "Internal server error"]]
    /\ UNCHANGED <<others, staff, event_codes>>
    /\ last_call' = NoCall

CreateEventCode ==
    \/ \E i \in EventCodeReqs, guest_name \in NameInputs, guest_email \in AddressInputs,
          code \in EventCodeValues : EventCodeStart(i, guest_name, guest_email, code)
    \/ \E i \in EventCodeReqs, code \in EventCodeValues : EventCodeRegenerate(i, code)
    \/ \E i \in EventCodeReqs : EventCodeInsert(i)
    \/ \E i \in EventCodeReqs, delivered \in BOOLEAN : EventCodeMail(i, delivered)
    \/ \E i \in EventCodeReqs : EventCodeThrows(i)

\* ===================================================================
\* Logsheet submissions in steps, lectures, applications
\* ===================================================================
\* SELECT id FROM daily_logsheet WHERE student_number = ? AND log_date = ?
SelectLogsheets(student_number, log_date) ==
    {l \in daily_logsheet : l.student_number = student_number /\ l.log_date = log_date}

\* Lines 1128-1155: POST /api/submit-logsheet up to its INSERT: the SELECT of
\* the pair, 400 when a row is there, 400 when a required field is missing.
LogsheetCheck(q, student_number, log_date, complete) ==
    /\ logsheet_req[q].pc = "idle"
    /\ IF q = 1 THEN TRUE ELSE logsheet_req[q - 1].pc # "idle"
    /\ LET req == [IdleLogsheetReq EXCEPT !.student_number = student_number,
                                          !.log_date = log_date]
       IN  IF SelectLogsheets(student_number, log_date) # {}
           THEN logsheet_req' = [logsheet_req EXCEPT ![q] =
                    [req EXCEPT !.pc = "done", !.http = 400,
                                !.message = "A logsheet already exists for this student and date"]]
           ELSE IF ~complete
           THEN logsheet_req' = [logsheet_req EXCEPT ![q] =
                    [req EXCEPT !.pc = "done", !.http = 400,
                                !.message = "Missing required fields"]]
           ELSE logsheet_req' = [logsheet_req EXCEPT ![q] = [req EXCEPT !.pc = "insert"]]
    /\ UNCHANGED <<tables, signup, upd, activity, staff, events, lectures>>
    /\ last_call' = NoCall

\* Lines 1188-1260: the INSERT INTO daily_logsheet, by pool.execute outside
\* any transaction, and the 200.  Nothing is looked up again before it.
LogsheetInsert(q) ==
    /\ logsheet_req[q].pc = "insert"
    /\ daily_logsheet' = daily_logsheet \cup
          {[id |-> q, student_number |-> logsheet_req[q].student_number,
            log_date |-> logsheet_req[q].log_date]}
    /\ logsheet_req' = [logsheet_req EXCEPT ![q] =
          [@ EXCEPT !.pc = "done", !.http = 200, !.inserted = {q},
                    !.message = "Log sheet submitted successfully"]]
    /\ UNCHANGED <<tables, signup, upd, today, recompute, admin, sweep, staff, events,
                   lectures>>
    /\ last_call' = Call("submit-logsheet", logsheet_req[q].student_number)

\* Lines 1275-1282: the INSERT throws: 500.
LogsheetThrows(q) ==
    /\ logsheet_req[q].pc = "insert"
    /\ logsheet_req' = [logsheet_req EXCEPT ![q] =
          [@ EXCEPT !.pc = "done", !.http = 500, !.message = "Failed to submit log sheet"]]
    /\ UNCHANGED <<tables, signup, upd, activity, staff, events, lectures>>
    /\ last_call' = NoCall

\* Lines 1861-1928: PUT /api/update-logsheet (and the updates by id at
\* 1739-1745, 1791-1796, 4097-4102): the SET clause names neither
\* student_number nor log_date, so the rows as kept here stay as they are.
UpdateLogsheet(student_number, log_date) ==
    /\ UNCHANGED <<tables, signup, upd, activity, staff, events, lectures, logsheet_req>>
    /\ last_call' = NoCall

SubmitLogsheetInSteps ==
    \/ \E q \in LogsheetReqs, student_number \in SweepStudents, log_date \in {0, 1},
          complete \in BOOLEAN : LogsheetCheck(q, student_number, log_date, complete)
    \/ \E q \in LogsheetReqs : LogsheetInsert(q)
    \/ \E q \in LogsheetReqs : LogsheetThrows(q)
    \/ \E student_number \in SweepStudents, log_date \in {0, 1} :
          UpdateLogsheet(student_number, log_date)

\* ------------- POST /api/lectures/register, POST /api/event-attendance/mark
\* The event ids a client can name (9 is no event) and the student numbers it
\* can name (s9 has no application, "" is a missing field).
EventIds == {1, 9}
LectureStudents == {"s1", "s2", "s9", ""}

\* A comparison under the table's collation utf8mb4_general_ci, which takes
\* no account of case.
GeneralCi(text) ==
    CASE text = "Accepted" -> "accepted"
      [] text = "Rejected" -> "rejected"
      [] text = "Pending" -> "pending"
      [] OTHER -> text

\* SELECT id FROM wil_application WHERE student_number = ?
ApplicationsOf(student_number) ==
    {id \in DOMAIN wil_application : wil_application[id].student_number = student_number}

\* SELECT id FROM wil_application WHERE student_number = ? AND status = 'accepted'
AcceptedApplicationsOf(student_number) ==
    {id \in ApplicationsOf(student_number) :
        GeneralCi(wil_application[id].status) = GeneralCi("accepted")}

\* rows[0] of a SELECT on the primary key order.
FirstId(ids) == CHOOSE id \in ids : \A other \in ids : id <= other

\* The rows of event_attendance WHERE event_id = ? AND student_id = ?
Registrations(event_id, wilAppId) ==
    {a \in event_attendance : a.event_id = event_id /\ a.student_id = wilAppId}

\* The id AUTO_INCREMENT gives the next row of event_attendance.
NextAttendanceId ==
    IF event_attendance = {} THEN 1
    ELSE 1 + (CHOOSE id \in {a.id : a \in event_attendance} :
                 \A a \in event_attendance : a.id <= id)

LectureResponse(op, event_id, student_id, http, message) ==
    [op |-> op, event_id |-> event_id, student_id |-> student_id, http |-> http,
     message |-> message]

\* Lines 4242-4333: POST /api/lectures/register, run alone.
LecturesRegister(event_id, student_id) ==
    LET eventResult == {g \in guest_lectures : g.id = event_id}
        event == CHOOSE g \in eventResult : TRUE
        studentStatus == AcceptedApplicationsOf(student_id)
        wilAppId == FirstId(studentStatus)
        registrationCount == Cardinality(Registrations(event_id, wilAppId))
        answer(http, message) ==
            /\ lecture' = LectureResponse("register", event_id, student_id, http, message)
            /\ UNCHANGED <<guest_lectures, event_attendance>>
    IN  /\ IF student_id = ""
           THEN answer(400, "Missing event_id or student_id")
           ELSE IF eventResult = {}
           THEN answer(404, "Event not found")
           ELSE IF event.register_status # "active"
           THEN answer(403, "Registration is not active for this event")
           ELSE IF event.event_date < today
           THEN answer(403, "Cannot register for past events")
           ELSE IF studentStatus = {}
           THEN answer(403, "You are not eligible to register for this event")
           ELSE IF registrationCount >= 1
           THEN answer(403, "Maximum registrations (2) reached for this event")
           ELSE /\ event_attendance' = event_attendance \cup
                      {[id |-> NextAttendanceId, event_id |-> event_id,
                        student_id |-> wilAppId, attended |-> FALSE]}
                /\ lecture' = LectureResponse("register", event_id, student_id, 201,
                                              "Successfully registered for the lecture")
                /\ UNCHANGED guest_lectures
        /\ UNCHANGED <<tables, signup, upd, activity, staff, events, logsheet_req, removal>>
        /\ last_call' = NoCall

\* Lines 4175-4235: POST /api/event-attendance/mark, run alone: the student is
\* looked up by number alone, the latest record of the pair is updated, and a
\* record is inserted when there is none.
MarkAttendance(event_id, student_id, attended) ==
    LET studentStatus == ApplicationsOf(student_id)
        wilAppId == FirstId(studentStatus)
        records == Registrations(event_id, wilAppId)
        latest == CHOOSE a \in records : \A other \in records : other.id <= a.id
    IN  /\ IF student_id = ""
           THEN /\ lecture' = LectureResponse("mark", event_id, student_id, 400,
                                              "Missing required fields")
                /\ UNCHANGED event_attendance
           ELSE IF studentStatus = {}
           THEN /\ lecture' = LectureResponse("mark", event_id, student_id, 404,
                                              "Student not found")
                /\ UNCHANGED event_attendance
           ELSE /\ event_attendance' =
                      IF records # {}
                      THEN {IF a = latest THEN [a EXCEPT !.attended = attended] ELSE a :
                               a \in event_attendance}
                      ELSE event_attendance \cup
                              {[id |-> NextAttendanceId, event_id |-> event_id,
                                student_id |-> wilAppId, attended |-> attended]}
                /\ lecture' = LectureResponse("mark", event_id, student_id, 200,
                                              "Attendance updated successfully")
        /\ UNCHANGED <<tables, signup, upd, activity, staff, events, logsheet_req,
                       guest_lectures, removal>>
        /\ last_call' = NoCall

\* Lines 2297-2333: PUT /api/guest-lecture/toggle-status/:id.
ToggleStatus(id) ==
    /\ \E g \in guest_lectures : g.id = id
    /\ guest_lectures' =
          {IF g.id = id
           THEN [g EXCEPT !.register_status = IF @ = "active" THEN "inactive" ELSE "active"]
           ELSE g : g \in guest_lectures}
    /\ UNCHANGED <<tables, signup, upd, activity, staff, events, logsheet_req,
                   event_attendance, lecture, removal>>
    /\ last_call' = NoCall

Lectures ==
    \/ \E event_id \in EventIds, student_id \in LectureStudents :
          LecturesRegister(event_id, student_id)
    \/ \E event_id \in {g.id : g \in guest_lectures}, student_id \in LectureStudents,
          attended \in BOOLEAN :
          MarkAttendance(event_id, student_id, attended)
    \/ \E id \in EventIds : ToggleStatus(id)

\* ------------------------------------------ POST /api/validate-staff-code
\* The table named s that the handler reads (lines 594-595): no statement of
\* the program creates it or writes it, so it has no row where it exists.
TableS == {}

\* Whether the database has a table named s is not the program's to say.
TableSExists == BOOLEAN

NoStaffData == [staff_name |-> "", staff_email |-> NoAddress]

\* Lines 576-637: the answers the handler can give for a code: 400 without a
\* code; 500 from the catch when the SELECT on s throws because there is no
\* such table; else "Invalid staff code" when s has no row with the code, and
\* the name and the address of the first row when it has one.
ValidateStaffCode(code) ==
    IF code = ""
    THEN {[http |-> 400, success |-> FALSE, message |-> "Staff code is required",
           data |-> NoStaffData]}
    ELSE {IF ~exists
          THEN [http |-> 500, success |-> FALSE,
                message |-> "Server error during staff code validation",
                data |-> NoStaffData]
          ELSE LET rows == {row \in TableS : row.code = code}
               IN  IF rows = {}
                   THEN [http |-> 200, success |-> FALSE, message |-> "Invalid staff code",
                         data |-> NoStaffData]
                   ELSE LET staffCodeEntry ==
                                CHOOSE row \in rows : \A other \in rows : row.id <= other.id
                        IN  [http |-> 200, success |-> TRUE, message |-> "Valid staff code",
                             data |-> [staff_name |-> staffCodeEntry.staff_name,
                                       staff_email |-> staffCodeEntry.staff_email]] :
             exists \in TableSExists}

\* The handler reads and answers; it writes nothing.
ValidateStaffCodeCall(code) ==
    /\ ValidateStaffCode(code) # {}
    /\ UNCHANGED <<tables, signup, upd, activity, staff, events, logsheet_req, lectures>>
    /\ last_call' = NoCall

\* ------------------------------------ DELETE /api/delete-application/:id
\* The statement of the handler that throws, if any.
DeleteFailures == {"none", "select", "event_attendance", "wil_application"}

\* A deletion that takes the codes of the application with it.
DeleteApplicationRevokes(id, thrown) ==
    /\ \A u \in Updates : ~UpdHoldsRow(u, id)
    /\ id \in DOMAIN wil_application /\ thrown = "none"
    /\ event_attendance' = {a \in event_attendance : a.student_id # id}
    /\ wil_application' = [i \in DOMAIN wil_application \ {id} |-> wil_application[i]]
    /\ signup_codes' = {s \in signup_codes : s.application_id # id}
    /\ removal' = [id |-> id, http |-> 200, message |-> "Application deleted successfully."]
    /\ UNCHANGED <<student_users, users, blocked_signups, signup, upd, activity, staff,
                   events, logsheet_req, guest_lectures, lecture>>
    /\ last_call' = NoCall

\* Lines 1552-1590: the SELECT of the application (404 when there is none),
\* DELETE FROM event_attendance WHERE student_id = ?, DELETE FROM
\* wil_application WHERE id = ?, 200; a statement that throws is answered 500
\* with the statements before it done.  The DELETE of the application waits
\* for an open status update that has written the row.
DeleteApplication(id, thrown) ==
    /\ \A u \in Updates : ~UpdHoldsRow(u, id)
    /\ IF thrown = "select"
       THEN /\ removal' = [id |-> id, http |-> 500, message |-> "Failed to delete application."]
            /\ UNCHANGED <<wil_application, event_attendance>>
       ELSE IF id \notin DOMAIN wil_application
       THEN /\ removal' = [id |-> id, http |-> 404, message |-> "Application not found."]
            /\ UNCHANGED <<wil_application, event_attendance>>
       ELSE IF thrown = "event_attendance"
       THEN /\ removal' = [id |-> id, http |-> 500, message |-> "Failed to delete application."]
            /\ UNCHANGED <<wil_application, event_attendance>>
       ELSE IF thrown = "wil_application"
       THEN /\ removal' = [id |-> id, http |-> 500, message |-> "Failed to delete application."]
            /\ event_attendance' = {a \in event_attendance : a.student_id # id}
            /\ UNCHANGED wil_application
       ELSE /\ removal' = [id |-> id, http |-> 200,
                           message |-> "Application deleted successfully."]
            /\ event_attendance' = {a \in event_attendance : a.student_id # id}
            /\ wil_application' =
                  [i \in DOMAIN wil_application \ {id} |-> wil_application[i]]
    /\ UNCHANGED <<signup_codes, student_users, users, blocked_signups, signup, upd,
                   activity, staff, events, logsheet_req, guest_lectures, lecture>>
    /\ last_call' = NoCall

\* ------------------------------------------------------- specifications
\* Every handler of the model, with every input.
Next ==
    \/ Signup
    \/ UpdateStatus
    \/ \E code \in Codes \cup {NoCode} : ValidateSignupCodeCall(code)
    \/ \E email \in Emails : BlockSignupEmail(email)
    \/ \E sn \in StudentNumbers \cup SweepStudents, d \in LogDates, complete \in BOOLEAN :
          SubmitLogsheet(sn, d, complete)
    \/ NextDay
    \/ \E sn \in StudentNumbers : UpdateStudentStatus(sn)
    \/ AdminAction
    \/ Sweep
    \/ StaffCodes
    \/ StaffSignup
    \/ CreateEventCode
    \/ SubmitLogsheetInSteps
    \/ Lectures
    \/ \E id \in AppIds, thrown \in DeleteFailures : DeleteApplication(id, thrown)
    \/ \E code \in StaffCodeValues \cup {""} : ValidateStaffCodeCall(code)

Spec == Init /\ [][Next]_vars

\* Logsheet submissions whose steps interleave, with logsheet updates.
SpecLogsheets == Init /\ [][SubmitLogsheetInSteps]_vars

\* One lecture, and three applications: s1 was accepted, s2 was rejected and
\* applied again (POST /api/applications looks for no earlier application)
\* and was then accepted.
InitLectureHall ==
    /\ wil_application =
          [id \in {1, 3, 4} |->
              [id |-> id,
               student_number |-> IF id = 1 THEN "s1" ELSE "s2",
               email |-> IF id = 1 THEN <<"s1", "mut">> ELSE <<"s2", "mut">>,
               status |-> IF id = 3 THEN "Rejected" ELSE "Accepted"]]
    /\ signup_codes = {}
    /\ student_users = {}
    /\ users = {}
    /\ blocked_signups = {}
    /\ signup = [r \in Signups |-> IdleSignup]
    /\ upd = [u \in Updates |-> IdleUpdate]
    /\ daily_logsheet = {}
    /\ today = 0
    /\ recompute = NoRecompute
    /\ admin = NoAdmin
    /\ sweep = IdleSweep
    /\ last_call = NoCall
    /\ InitStaff
    /\ InitEvents
    /\ InitLogsheetReqs
    /\ guest_lectures = {[id |-> 1, register_status |-> "active", event_date |-> 1]}
    /\ event_attendance = {}
    /\ lecture = NoLecture
    /\ removal = NoRemoval

\* No signup and no status update is under way.
RevokeQuiet ==
    /\ \A r \in Signups : signup[r].pc \in {"idle", "done"}
    /\ \A u \in Updates : upd[u].pc \in {"idle", "done"}

\* The life of a code after its acceptance, one call at a time: status
\* updates of application 1, its deletion, validations and redemptions.
NextRevoke ==
    \/ /\ RevokeQuiet
       /\ \E u \in Updates, status \in StatusValues : UpdateStatusSelect(u, 1, status)
    \/ \E u \in Updates : UpdateStatusUpdate(u)
    \/ \E u \in Updates, code \in generateRandomCode : UpdateStatusInsertCode(u, code)
    \/ \E u \in Updates : UpdateStatusSendAcceptance(u)
    \/ \E u \in Updates : UpdateStatusSendRejection(u)
    \/ \E u \in Updates : UpdateStatusCommit(u)
    \/ /\ RevokeQuiet
       /\ \E r \in Signups, route \in Routes, code \in Codes :
             SignupLookup(r, route, <<"s1", "mut">>, "pw", code)
    \/ \E r \in Signups : SignupInsertStudent(r)
    \/ \E r \in Signups : SignupInsertUsers(r)
    \/ \E r \in Signups : SignupDeleteCode(r)
    \/ \E r \in Signups : SignupCommitted(r)
    \/ \E code \in Codes : ValidateSignupCodeCall(code)
    \/ /\ RevokeQuiet
       /\ \E id \in AppIds, thrown \in DeleteFailures : DeleteApplication(id, thrown)

SpecRevoke == Init /\ [][NextRevoke]_vars

\* Acceptances of application 1 and redemptions through both endpoints, one
\* call at a time.
NextRedeemInTurn ==
    \/ /\ RevokeQuiet
       /\ \E u \in Updates : UpdateStatusSelect(u, 1, "Accepted")
    \/ \E u \in Updates : UpdateStatusUpdate(u)
    \/ \E u \in Updates, code \in generateRandomCode : UpdateStatusInsertCode(u, code)
    \/ \E u \in Updates : UpdateStatusSendAcceptance(u)
    \/ \E u \in Updates : UpdateStatusCommit(u)
    \/ /\ RevokeQuiet
       /\ \E r \in Signups, route \in Routes, email \in Emails, code \in Codes :
             SignupLookup(r, route, email, "pw", code)
    \/ \E r \in Signups : SignupInsertStudent(r)
    \/ \E r \in Signups : SignupInsertUsers(r)
    \/ \E r \in Signups : SignupDeleteCode(r)
    \/ \E r \in Signups : SignupCommitted(r)

SpecRedeemInTurn == Init /\ [][NextRedeemInTurn]_vars

\* Registrations and attendance marks, one call at a time, with the calendar.
NextLectures ==
    \/ Lectures
    \/ NextDay

SpecLectures == InitLectureHall /\ [][NextLectures]_vars

\* The staff_codes requests that have started and not answered.
StaffCodesInFlight == {i \in StaffCodeReqs : staff_code_req[i].pc \in {"generate", "mail"}}

\* POST /api/staff_codes requests, two of them at a time.
NextStaffCodes ==
    \/ \E i \in StaffCodeReqs, staff_name \in NameInputs, staff_email \in AddressInputs :
          /\ Cardinality(StaffCodesInFlight) <= 1
          /\ StaffCodesStart(i, staff_name, staff_email)
    \/ \E i \in StaffCodeReqs, code \in StaffCodeValues : StaffCodesAttempt(i, code)
    \/ \E i \in StaffCodeReqs : StaffCodesExhausted(i)
    \/ \E i \in StaffCodeReqs : StaffCodesInsert(i)
    \/ \E i \in StaffCodeReqs : StaffCodesMailSent(i)
    \/ \E i \in StaffCodeReqs, http \in RejectedHandler : StaffCodesMailFails(i, http)
    \/ \E i \in StaffCodeReqs : StaffCodesThrows(i)

SpecStaffCodes == Init /\ [][NextStaffCodes]_vars

\* No staff request is in flight.
StaffQuiet ==
    /\ \A i \in StaffCodeReqs : staff_code_req[i].pc \in {"idle", "done"}
    /\ \A r \in StaffSignups : staff_signup[r].pc \in {"idle", "done"}

\* Staff codes issued and redeemed in sequential use: a request starts when
\* no other one is in flight.
NextStaff ==
    \/ \E i \in StaffCodeReqs :
          StaffQuiet /\ StaffCodesStart(i, "Thabo", <<"t", "@", "m", ".", "z">>)
    \/ \E i \in StaffCodeReqs, code \in StaffCodeValues : StaffCodesAttempt(i, code)
    \/ \E i \in StaffCodeReqs : StaffCodesExhausted(i)
    \/ \E i \in StaffCodeReqs : StaffCodesInsert(i)
    \/ \E i \in StaffCodeReqs : StaffCodesMailSent(i)
    \/ \E r \in StaffSignups, route \in StaffRoutes, email \in Emails,
          code \in StaffCodeValues :
          StaffQuiet /\ StaffSignupLookup(r, route, email, code)
    \/ \E r \in StaffSignups : StaffSignupInsert(r)
    \/ \E r \in StaffSignups : StaffSignupDeleteCode(r)
    \/ \E r \in StaffSignups : StaffSignupCommitted(r)
    \/ \E code \in StaffCodeValues \cup {""} : ValidateStaffCodeCall(code)

SpecStaff == Init /\ [][NextStaff]_vars

\* The create-event-code requests that have started and not answered.
EventCodesInFlight == {i \in EventCodeReqs : event_code_req[i].pc \in {"check", "mail"}}

\* POST /api/create-event-code requests, two of them at a time.
NextEvents ==
    \/ \E i \in EventCodeReqs, guest_name \in NameInputs, code \in EventCodeValues :
          /\ Cardinality(EventCodesInFlight) <= 1
          /\ EventCodeStart(i, guest_name, <<"t", "@", "m", ".", "z">>, code)
    \/ \E i \in EventCodeReqs, code \in EventCodeValues : EventCodeRegenerate(i, code)
    \/ \E i \in EventCodeReqs : EventCodeInsert(i)
    \/ \E i \in EventCodeReqs, delivered \in BOOLEAN : EventCodeMail(i, delivered)
    \/ \E i \in EventCodeReqs : EventCodeThrows(i)

SpecEvents == Init /\ [][NextEvents]_vars

\* The handler goes on when it can, and the generator is fair: a request that
\* could again and again draw a value no row carries does draw one.
EventsFairness ==
    \A i \in EventCodeReqs :
        /\ WF_vars(EventCodeInsert(i))
        /\ WF_vars(\E delivered \in BOOLEAN : EventCodeMail(i, delivered))
        /\ SF_vars(EventCodeRegenerateFresh(i))

SpecEventsFair == Init /\ [][NextEvents]_vars /\ EventsFairness


\* ===================================================================
\* Properties
\* ===================================================================
\* C1: single use.  A redemption attempt that presents a code which, when the
\* attempt looks it up, a committed POST /api/student_signup has already
\* redeemed, does not succeed: it never ends with 201 and a new account (the
\* invalid-code outcome the claim names excludes that).
C1_SingleUse ==
    \A r \in Signups :
        "student_signup" \in signup[r].consumed_by => signup[r].status # 201

\* C2: concurrent redemption.  Of two POST /api/student_signup requests whose
\* lookups found the same code row, at most one returns 201, so that one
\* code creates one account.
C2_OneAccountPerCode ==
    \A r1 \in Signups, r2 \in Signups :
        (/\ r1 # r2
         /\ signup[r1].route = "student_signup" /\ signup[r2].route = "student_signup"
         /\ signup[r1].codeRows \cap signup[r2].codeRows # {})
            => ~(signup[r1].status = 201 /\ signup[r2].status = 201)

\* C3: rollback on failed redemption.  When POST /api/student_signup has found
\* the code and then fails before commit (duplicate email on either insert,
\* or a statement that throws), the step that ends the request leaves
\* student_users, users and signup_codes as they were, so a code row that
\* was there is still there.
C3_RollbackKeepsCode ==
    [][\A r \in Signups :
          (/\ signup[r].route = "student_signup"
           /\ SignupOpen(r)
           /\ signup'[r].pc = "done"
           /\ signup'[r].status # 201)
              => (/\ signup_codes' = signup_codes
                  /\ student_users' = student_users
                  /\ users' = users)]_vars

\* C3 witness: a request found a code row and failed with a rollback; a
\* request that started after it redeemed the same row.
C3_RetrySucceeds ==
    \E r1 \in Signups, r2 \in Signups :
        /\ r1 < r2
        /\ signup[r1].route = "student_signup" /\ signup[r2].route = "student_signup"
        /\ signup[r1].pc = "done" /\ signup[r1].status = 500
        /\ signup[r2].status = 201
        /\ signup[r1].codeRows # {} /\ signup[r1].codeRows = signup[r2].codeRows
        /\ signup[r1].codeRows \cap {s.id : s \in signup_codes} = {}

\* C4: no partial redemption state.  Every step of a POST /api/student_signup
\* request either leaves student_users, users and signup_codes unchanged, or
\* is its commit with 201 and adds one row to student_users, one row to users
\* with the same email and the same password hash, and leaves no code row
\* that the request had found.
C4_AllOrNothing ==
    [][\A r \in Signups :
          (signup'[r] # signup[r] /\ signup'[r].route = "student_signup")
              => \/ /\ signup_codes' = signup_codes
                    /\ student_users' = student_users
                    /\ users' = users
                    /\ signup'[r].status # 201
                 \/ /\ signup'[r].status = 201
                    /\ \E su \in student_users' \ student_users, us \in users' \ users :
                          /\ student_users' = student_users \cup {su}
                          /\ users' = users \cup {us}
                          /\ su.email = signup[r].email /\ us.email = signup[r].email
                          /\ su.password = us.password
                          /\ su.password = BcryptHash(signup[r].password)
                    /\ signup_codes' \subseteq signup_codes
                    /\ signup[r].codeRows \cap {s.id : s \in signup_codes'} = {}]_vars

\* C4 witness: a committed student signup, its account in both tables with
\* one hash, while another redemption request is in flight.
C4_RedeemedBoth ==
    \E r \in Signups, q \in Signups, su \in student_users, us \in users :
        /\ signup[r].route = "student_signup" /\ signup[r].status = 201
        /\ su.email = us.email /\ su.password = us.password
        /\ SignupOpen(q)

\* C5: blocked email stops redemption.  A POST /api/student_signup whose code
\* row carries an email that was in blocked_signups when the request looked
\* the code up does not return 201.
C5_BlockedEmailStopsRedemption ==
    \A r \in Signups :
        (signup[r].route = "student_signup" /\ signup[r].email_blocked)
            => signup[r].status # 201

\* C6: email failure does not undo acceptance.  When the acceptance email of a
\* status update fails after the UPDATE and the INSERT of the code, the
\* application is Accepted and the code row is in signup_codes afterwards.
C6_EmailFailureKeepsAcceptance ==
    [][\A u \in Updates :
          (/\ upd[u].pc = "send_acceptance"
           /\ upd'[u].pc = "done"
           /\ upd'[u].errorDetails = "Status updated but failed to send email")
              => (/\ wil_application'[upd[u].id].status = "Accepted"
                  /\ upd[u].new_codes \subseteq signup_codes')]_vars

\* C7: notification after commit.  A status update has sent its email only if
\* its transaction has committed (the request is over, with 200).
C7_MailOnlyAfterCommit ==
    \A u \in Updates :
        upd[u].sent # {} => (upd[u].pc = "done" /\ upd[u].http = 200)

\* C8: a deleted code never validates again.  For every code that a committed
\* redemption has consumed, validate-signup-code answers success: false.
C8_ConsumedCodeNeverValidates ==
    \A code \in ConsumedCodes : ~ValidateSignupCode(code).success

\* C9: acceptance is atomic with code issuance.  Every step of a status update
\* to Accepted either leaves wil_application and signup_codes unchanged, or is
\* its commit with 200, after which the application is Accepted and
\* signup_codes has exactly one more row, carrying the generated code and the
\* id, student number and email read from the application row.
C9_AcceptanceAtomic ==
    [][\A u \in Updates :
          (upd'[u] # upd[u] /\ upd'[u].status = "Accepted")
              => \/ /\ wil_application' = wil_application
                    /\ signup_codes' = signup_codes
                    /\ upd'[u].http # 200
                 \/ /\ upd'[u].http = 200
                    /\ wil_application'[upd[u].id].status = "Accepted"
                    /\ \E row \in signup_codes' \ signup_codes :
                          /\ signup_codes' = signup_codes \cup {row}
                          /\ row.code = upd[u].generatedCode
                          /\ row.code \in Codes
                          /\ row.application_id = upd[u].id
                          /\ row.student_number = upd[u].appData.student_number
                          /\ row.email = upd[u].appData.email]_vars

\* C9 witness: a committed acceptance whose code row is in signup_codes, next
\* to an acceptance that was rolled back.
C9_AcceptedWithCode ==
    \E u \in Updates, v \in Updates :
        /\ upd[u].pc = "done" /\ upd[u].http = 200 /\ upd[u].status = "Accepted"
        /\ \E row \in signup_codes : row.id = u /\ row.code = upd[u].generatedCode
        /\ wil_application[1].status = "Accepted"
        /\ upd[v].pc = "done" /\ upd[v].http = 500 /\ upd[v].status = "Accepted"

\* C10: activity threshold.  A recompute that answers 200 for student s leaves
\* s inactive when s has no logsheet, and otherwise, with d = today minus the
\* latest log date, active for every d <= 10 and inactive for every d >= 11;
\* the response reports d.
C10_ActivityThreshold ==
    [][\A sn \in StudentNumbers :
          (/\ recompute' # recompute
           /\ recompute'.http = 200
           /\ recompute'.student_number = sn)
              => LET dates == {l.log_date : l \in {k \in daily_logsheet : k.student_number = sn}}
                     stored == {row.status : row \in {x \in student_users' : x.email[1] = sn}}
                 IN  /\ dates = {} =>
                            (stored = {"inactive"} /\ recompute'.days_since_last_activity = {})
                     /\ \A d \in (0 - MaxDay - 1) .. MaxDay :
                            (dates # {} /\ d = today - SetMax(dates)) =>
                               /\ recompute'.days_since_last_activity = {d}
                               /\ d <= 10 => stored = {"active"}
                               /\ d >= 11 => stored = {"inactive"}]_vars

\* C10 witness: a recompute at exactly 10 days that stored active before,
\* answered on a day when the distance has grown to 11.
C10_AtTheLimit ==
    /\ recompute.http = 200
    /\ recompute.days_since_last_activity = {10}
    /\ recompute.data_status = {"active"}
    /\ \E row \in student_users : row.status = "active"
    /\ MaxLogDate("s1") # {}
    /\ today - SetMax(MaxLogDate("s1")) = 11

C12_SweepProcessesAll ==
    (sweep.pc = "done" /\ Len(sweep.activeStudents) > 0)
        => sweep.i > Len(sweep.activeStudents)

\* C13: reactivation gate.  POST /api/reactivate-student/:student_number answers
\* 404 for an unknown student; 400, with student_users unchanged, when the
\* student has no logsheet or the latest log date is more than 10 days old; and
\* otherwise 200, with the student stored active.
C13_ReactivationGate ==
    [][\A sn \in StudentNumbers :
          (last_call'.op = "reactivate-student" /\ last_call'.student_number = sn)
              => LET known == \E row \in student_users : row.email[1] = sn
                     dates == {l.log_date : l \in {k \in daily_logsheet : k.student_number = sn}}
                     stored == {row.status : row \in {x \in student_users' : x.email[1] = sn}}
                 IN  /\ admin'.op = "reactivate-student" /\ admin'.student_number = sn
                     /\ ~known => (admin'.http = 404 /\ student_users' = student_users)
                     /\ (known /\ dates = {}) =>
                            (admin'.http = 400 /\ student_users' = student_users)
                     /\ \A d \in (0 - MaxDay - 1) .. MaxDay :
                            (known /\ dates # {} /\ d = today - SetMax(dates)) =>
                               /\ d >= 11 => (admin'.http = 400 /\ student_users' = student_users)
                               /\ d <= 10 => (admin'.http = 200 /\ stored = {"active"})]_vars

\* C13 witness: a reactivation answered 200 with the latest logsheet exactly
\* 10 days old, and stored the student active.
C13_ReactivatedAtTheLimit ==
    /\ Answered("reactivate-student", "s1")
    /\ admin.http = 200
    /\ admin.days_since_last_activity = {10}
    /\ admin.data_status = {"active"}

\* C14: admin actions set the status directly.  A suspend-student,
\* unenroll-student or enroll-student call for a student that exists answers
\* 200 and leaves the student suspended, unenrolled or active, whatever the
\* status and the logsheets were; for a student that does not exist it answers
\* 404 and student_users is unchanged.
C14_AdminSetsStatus ==
    [][\A sn \in StudentNumbers,
          op \in {"suspend-student", "unenroll-student", "enroll-student"} :
          (last_call'.op = op /\ last_call'.student_number = sn)
              => LET known == \E row \in student_users : row.email[1] = sn
                     stored == {row.status : row \in {x \in student_users' : x.email[1] = sn}}
                     target == CASE op = "suspend-student" -> "suspended"
                                 [] op = "unenroll-student" -> "unenrolled"
                                 [] OTHER -> "active"
                 IN  /\ admin'.op = op /\ admin'.student_number = sn
                     /\ ~known => (admin'.http = 404 /\ student_users' = student_users)
                     /\ known => /\ admin'.http = 200
                                 /\ stored = {target}
                                 /\ admin'.data_status = {target}
                                 /\ {row.email : row \in student_users'} =
                                       {row.email : row \in student_users}]_vars

\* C14 witness: a student was suspended although the latest logsheet is of
\* today.
C14_SuspendedWhileActive ==
    /\ Answered("suspend-student", "s1")
    /\ admin.http = 200 /\ admin.data_status = {"suspended"}
    /\ \E row \in student_users : row.email[1] = "s1" /\ row.status = "suspended"
    /\ MaxLogDate("s1") = {today}

\* C15: every explicit admin status action dispatches its notification.  A
\* suspend, unenroll, enroll or reactivate call that answers 200 has handed
\* exactly one notification mail for the student to the mailer.
C15_OneMailPerAdminAction ==
    (admin.op \in AdminOps /\ admin.http = 200) => Cardinality(admin.mails) = 1

\* C16: status_changed is exact.  A recompute that answers 200 for student s
\* reports status_changed = true and writes the status exactly when the target
\* status (inactive without a logsheet, else active up to 10 days and inactive
\* beyond) differs from the status stored before the call; otherwise it writes
\* nothing and reports false.  Either way it reports the distance in days
\* (null without a logsheet) and the status as stored after the call.
C16_StatusChangedExact ==
    [][\A sn \in StudentNumbers :
          ((last_call'.op = "update-student-status" /\ last_call'.student_number = sn) /\ recompute'.http = 200)
              => LET before == {row.status : row \in {x \in student_users : x.email[1] = sn}}
                     after == {row.status : row \in {x \in student_users' : x.email[1] = sn}}
                     dates == {l.log_date : l \in {k \in daily_logsheet : k.student_number = sn}}
                     target == IF dates = {} THEN "inactive"
                               ELSE IF today - SetMax(dates) <= 10 THEN "active"
                               ELSE "inactive"
                 IN  /\ recompute'.status_changed <=> (before # {target})
                     /\ recompute'.status_changed <=> (student_users' # student_users)
                     /\ after = {target}
                     /\ recompute'.data_status = after
                     /\ recompute'.days_since_last_activity =
                           IF dates = {} THEN {} ELSE {today - SetMax(dates)}
                     /\ recompute'.last_activity_date =
                           IF dates = {} THEN {} ELSE {SetMax(dates)}]_vars

\* C16 witness: a recompute found the student inactive with a logsheet of
\* today, wrote active and reported the change.
C16_ReportedChange ==
    /\ Answered("update-student-status", "s1")
    /\ recompute.http = 200 /\ recompute.status_changed
    /\ recompute.data_status = {"active"}
    /\ recompute.days_since_last_activity = {0}
    /\ today > 0

\* C17: rejected status updates change nothing.  A PUT /api/update-status/:id
\* whose status is none of Pending, Accepted, Rejected (or is missing) ends at
\* once with 400, and one with a valid status and an id without an application
\* row ends with 404; the step that answers 400 or 404 changes no application,
\* adds no signup_codes row and has sent no mail.
C17_RejectedUpdateChangesNothing ==
    [][\A u \in Updates :
          (upd[u].pc = "idle" /\ upd'[u].pc # "idle")
              => /\ upd'[u].status \notin {"Pending", "Accepted", "Rejected"}
                       => (upd'[u].pc = "done" /\ upd'[u].http = 400)
                 /\ (/\ upd'[u].status \in {"Pending", "Accepted", "Rejected"}
                     /\ upd'[u].id \notin DOMAIN wil_application)
                       => (upd'[u].pc = "done" /\ upd'[u].http = 404)
                 /\ upd'[u].http \in {400, 404}
                       => /\ wil_application' = wil_application
                          /\ signup_codes' = signup_codes
                          /\ upd'[u].sent = {} /\ upd'[u].new_codes = {}
                          /\ upd'[u].generatedCode = NoCode]_vars

\* C17 witness: one request was answered 400 for a missing status, another 404
\* for an acceptance of an id that is no application, and nothing was written.
C17_BothRejections ==
    \E u \in Updates, v \in Updates :
        /\ upd[u].pc = "done" /\ upd[u].http = 400 /\ upd[u].status = NoStatus
        /\ upd[v].pc = "done" /\ upd[v].http = 404 /\ upd[v].status = "Accepted"
        /\ signup_codes = {} /\ wil_application[1].status = "Pending"

\* C18: signup codes come only from acceptance.  Every row of signup_codes was
\* inserted by a PUT /api/update-status/:id with status Accepted that committed
\* (200) on an application that exists; a step that adds a row is the commit
\* of such a request.
C18_CodesOnlyFromAcceptance ==
    \A row \in signup_codes :
        \E u \in Updates :
            /\ row.id = u
            /\ upd[u].pc = "done" /\ upd[u].http = 200 /\ upd[u].status = "Accepted"
            /\ upd[u].id = row.application_id
            /\ row.application_id \in DOMAIN wil_application
            /\ row.code = upd[u].generatedCode

\* C18 witness: an acceptance has left a code row and a rejection has
\* committed next to it.
C18_CodeNextToRejection ==
    \E u \in Updates, v \in Updates :
        /\ upd[u].pc = "done" /\ upd[u].http = 200 /\ upd[u].status = "Accepted"
        /\ upd[v].pc = "done" /\ upd[v].http = 200 /\ upd[v].status = "Rejected"
        /\ {row.id : row \in signup_codes} = {u}

\* C19: re-acceptance re-issues.  Without redemption, every committed
\* PUT /api/update-status/:id with status Accepted has its own row in
\* signup_codes, whatever the status of the application was before, and has
\* sent one acceptance mail with its code; the rows of the earlier acceptances
\* are still there and every issued code validates, so k such calls leave k
\* rows for the application.
C19_ReacceptanceReissues ==
    LET accepted == {u \in Updates : /\ upd[u].pc = "done" /\ upd[u].http = 200
                                     /\ upd[u].status = "Accepted"}
    IN  /\ \A id \in DOMAIN wil_application :
              Cardinality({row \in signup_codes : row.application_id = id}) =
                  Cardinality({u \in accepted : upd[u].id = id})
        /\ \A u \in accepted :
              /\ \E row \in signup_codes :
                    /\ row.id = u /\ row.application_id = upd[u].id
                    /\ row.code = upd[u].generatedCode
              /\ ValidateSignupCode(upd[u].generatedCode).success
              /\ Cardinality(upd[u].sent) = 1
              /\ \A m \in upd[u].sent :
                    m.kind = "acceptance" /\ m.code = upd[u].generatedCode

\* C19 witness: two acceptances of application 1 have committed one after the
\* other and two code rows are there.
C19_TwoCodesForOneApplication ==
    /\ \A u \in {1, 2} : /\ upd[u].pc = "done" /\ upd[u].http = 200
                         /\ upd[u].status = "Accepted" /\ upd[u].id = 1
    /\ Cardinality({row \in signup_codes : row.application_id = 1}) = 2
    /\ wil_application[1].status = "Accepted"

\* C20: side effects per target status.  The step that commits a
\* PUT /api/update-status/:id and answers 200 leaves student_users, users and
\* blocked_signups alone and sets the application's status; with Pending it
\* adds no code row, has sent no mail and answers code = null; with Rejected
\* it adds no code row and has sent exactly one mail, a rejection; the response
\* carries a code exactly when the status is Accepted.
C20_SideEffectsPerStatus ==
    [][\A u \in Updates :
          (upd[u].pc # "done" /\ upd'[u].pc = "done" /\ upd'[u].http = 200)
              => /\ student_users' = student_users /\ users' = users
                 /\ blocked_signups' = blocked_signups
                 /\ wil_application' =
                       [wil_application EXCEPT ![upd[u].id].status = upd[u].status]
                 /\ upd[u].status = "Pending"
                       => /\ signup_codes' = signup_codes
                          /\ upd'[u].sent = {}
                          /\ upd'[u].generatedCode = NoCode
                 /\ upd[u].status = "Rejected"
                       => /\ signup_codes' = signup_codes
                          /\ Cardinality(upd'[u].sent) = 1
                          /\ \A m \in upd'[u].sent :
                                m.kind = "rejection" /\ m.to = wil_application[upd[u].id].email
                 /\ (upd'[u].generatedCode # NoCode) <=> (upd[u].status = "Accepted")]_vars

\* C20 witness: a Pending update and a Rejected update have both committed.
C20_PendingAndRejected ==
    \E u \in Updates, v \in Updates :
        /\ upd[u].pc = "done" /\ upd[u].http = 200 /\ upd[u].status = "Pending"
        /\ upd[v].pc = "done" /\ upd[v].http = 200 /\ upd[v].status = "Rejected"
        /\ upd[u].sent = {} /\ upd[v].sent # {}
        /\ signup_codes = {}

C28_SignupCodesUnique ==
    \A s1 \in signup_codes, s2 \in signup_codes : s1.code = s2.code => s1 = s2

C22_ValidationFromStoredRow ==
    \A code \in Codes :
        LET rows == {s \in signup_codes : s.code = code}
            blocked == \E s \in rows : /\ \A o \in rows : s.id <= o.id
                                       /\ s.email \in blocked_signups
            answer == ValidateSignupCode(code)
        IN  /\ answer.message = "Invalid code" <=> rows = {}
            /\ answer.message = "This email is blocked from signing up"
                  <=> (rows # {} /\ blocked)
            /\ answer.success <=> (rows # {} /\ ~blocked)
            /\ answer.success <=> answer.message = "Valid code"

\* C22 witness: an email is blocked, the code whose row stores it fails as
\* blocked, the code whose row stores another email validates, and a redeemed
\* code would be answered differently from both.
C22_BlockedAndValid ==
    \E c1 \in Codes, c2 \in Codes :
        /\ ValidateSignupCode(c1).message = "This email is blocked from signing up"
        /\ ValidateSignupCode(c2).success
        /\ \E s \in signup_codes : s.code = c2 /\ s.email \notin blocked_signups
        /\ blocked_signups # {}

\* C23: the block list is append-only.  No step removes an email from
\* blocked_signups, and after every step validate-signup-code fails for every
\* code whose stored email is blocked (every row that carries the code stores
\* that email).
C23_BlockListAppendOnly ==
    [][/\ blocked_signups \subseteq blocked_signups'
       /\ \A e \in blocked_signups, code \in Codes :
             LET rows == {s \in signup_codes' : s.code = code}
             IN  (rows # {} /\ \A s \in rows : s.email = e)
                    => (/\ e \in blocked_signups'
                        /\ ~(ValidateSignupCode(code).success)')]_vars

\* C23 witness: both emails are blocked, one after the other, and a code of a
\* blocked email is in the table and fails validation.
C23_BlockedStaysBlocked ==
    /\ blocked_signups = Emails
    /\ \E s \in signup_codes : ~ValidateSignupCode(s.code).success

\* C24: a duplicate account is a distinct error.  When POST /api/student_signup
\* has found its code and ends with 400, its email was in student_users or in
\* users, the message is the duplicate-email one and not the invalid-code one,
\* and student_users, users and signup_codes are as before; a request whose
\* email is in one of the two tables never ends with 201.
C24_DuplicateIsDistinct ==
    [][\A r \in Signups :
          (/\ signup[r].route = "student_signup"
           /\ SignupOpen(r)
           /\ signup'[r].pc = "done")
              => /\ signup'[r].status = 201
                       => /\ signup[r].email \notin {row.email : row \in student_users}
                          /\ signup[r].email \notin {row.email : row \in users}
                 /\ signup'[r].status = 400
                       => /\ \/ signup[r].email \in {row.email : row \in student_users}
                             \/ signup[r].email \in {row.email : row \in users}
                          /\ signup'[r].message = "Email already exists in one or both systems"
                          /\ signup'[r].message # "Invalid or expired signup code"
                          /\ signup_codes' = signup_codes
                          /\ student_users' = student_users
                          /\ users' = users]_vars

\* C24 witness: a student signup was answered with the duplicate-email error
\* and the code row it had found is still in signup_codes.
C24_DuplicateKeepsCode ==
    \E r \in Signups :
        /\ signup[r].route = "student_signup"
        /\ signup[r].pc = "done" /\ signup[r].status = 400
        /\ signup[r].message = "Email already exists in one or both systems"
        /\ signup[r].codeRows # {}
        /\ signup[r].codeRows \subseteq {s.id : s \in signup_codes}

\* C26: bounded staff-code generation.  Every step of a POST /api/staff_codes
\* request moves it forward (a later stage, or one more attempt), so it
\* terminates; it makes at most 5 generate-and-check attempts; it goes on
\* generating only while the value it checked was found; the row it inserts
\* carries the first value its check did not find; and after 5 values that
\* were all found it ends with 500, inserts no row and sends no mail.
C26_BoundedGeneration ==
    [][\A i \in StaffCodeReqs :
          LET before == staff_code_req[i]
              after == staff_code_req'[i]
              stage(req) == CASE req.pc = "idle" -> 0
                              [] req.pc = "generate" -> 1
                              [] req.pc = "mail" -> 2
                              [] req.pc = "done" -> 3
              rank(req) == 10 * stage(req) + req.attempts
          IN  /\ after.attempts <= 5
              /\ after # before => rank(after) > rank(before)
              /\ (before.pc = "generate" /\ after.pc = "generate" /\ after # before)
                    => /\ ~before.isUnique
                       /\ after.attempts = before.attempts + 1
                       /\ after.isUnique <=> ~\E s \in staff_codes : s.code = after.code
              /\ after.inserted # before.inserted
                    => /\ before.isUnique
                       /\ before.attempts \in 1..5
                       /\ \E row \in staff_codes' :
                             /\ row.code = before.code
                             /\ staff_codes' = staff_codes \cup {row}
              /\ (before.pc = "generate" /\ ~before.isUnique /\ before.attempts = 5
                  /\ after # before)
                    => /\ after.pc = "done" /\ after.http = 500
                       /\ after.inserted = {} /\ after.mails = 0
                       /\ staff_codes' = staff_codes
              /\ (before.pc # "done"
                  /\ after.message = "Failed to generate unique staff code")
                    => (before.attempts = 5 /\ ~before.isUnique)]_vars

\* C26 witness: one request has ended with the 500 of an exhausted loop after
\* 5 attempts, without a row and without a mail, and another one has inserted
\* its row after an attempt that collided.
C26_ExhaustedAfterFive ==
    \E i \in StaffCodeReqs, j \in StaffCodeReqs :
        /\ staff_code_req[i].pc = "done" /\ staff_code_req[i].http = 500
        /\ staff_code_req[i].message = "Failed to generate unique staff code"
        /\ staff_code_req[i].attempts = 5
        /\ staff_code_req[i].inserted = {} /\ staff_code_req[i].mails = 0
        /\ staff_code_req[j].http = 201 /\ staff_code_req[j].attempts > 1
        /\ staff_code_req[j].inserted # {}

\* C27: event-code generation loops until unique.  A POST
\* /api/create-event-code request whose last lookup found its value stays in
\* the loop and generates again, however often; its row is inserted only with
\* the value that its last lookup did not find; and, the generator being fair,
\* a request in the loop leaves it unless every value the generator can
\* return is in event_codes.
C27_LoopsUntilUnique ==
    /\ [][\A i \in EventCodeReqs :
             LET before == event_code_req[i]
                 after == event_code_req'[i]
             IN  /\ (before.pc = "check" /\ before.existingCodes /\ after # before)
                       => \/ /\ after.pc = "check" /\ after.regenerated
                             /\ after.inserted = {}
                             /\ after.existingCodes
                                   <=> \E e \in event_codes : e.event_code = after.event_code
                          \/ after.pc = "done" /\ after.http = 500 /\ after.inserted = {}
                 /\ after.inserted # before.inserted
                       => /\ ~before.existingCodes
                          /\ \E row \in event_codes' :
                                /\ row.event_code = before.event_code
                                /\ event_codes' = event_codes \cup {row}]_vars
    /\ \A i \in EventCodeReqs :
          (event_code_req[i].pc = "check")
             ~> (\/ event_code_req[i].pc # "check"
                 \/ \A code \in EventCodeValues : SelectEventCodes(code) # {})

\* C27 witness: a request that went through the loop body has inserted its
\* row and answered 201, while another request has both values found and is
\* in the loop.
C27_InsertedAfterCollision ==
    \E i \in EventCodeReqs, j \in EventCodeReqs :
        /\ event_code_req[i].pc = "done" /\ event_code_req[i].http = 201
        /\ event_code_req[i].regenerated /\ event_code_req[i].inserted # {}
        /\ event_code_req[j].pc = "check" /\ event_code_req[j].regenerated
        /\ \A code \in EventCodeValues : SelectEventCodes(code) # {}

\* C29: staff and mentor signup share one code namespace with single use
\* across both.  A redemption through /api/staff_Signup or /api/mentor_signup
\* of a code that a committed redemption through either endpoint has used
\* before never ends with 201, and the requests that ended with 201 for one
\* code are at most one.
C29_StaffCodeSingleUse ==
    /\ \A r \in StaffSignups :
          staff_signup[r].redeemed_before => staff_signup[r].status # 201
    /\ \A code \in StaffCodeValues :
          Cardinality({r \in StaffSignups : /\ staff_signup[r].status = 201
                                            /\ staff_signup[r].code = code}) <= 1

\* C30: a notification failure changes neither the persisted result nor the
\* HTTP status.  A POST /api/staff_codes or POST /api/create-event-code
\* request that has inserted its row and whose mail was not sent has its row
\* in the table and has answered 201.
C30_MailFailureKeepsStatus ==
    /\ \A i \in StaffCodeReqs :
          (/\ staff_code_req[i].pc = "done" /\ staff_code_req[i].inserted # {}
           /\ staff_code_req[i].mails = 0)
              => /\ \E s \in staff_codes : s.id \in staff_code_req[i].inserted
                 /\ staff_code_req[i].http = 201
    /\ \A i \in EventCodeReqs :
          (/\ event_code_req[i].pc = "done" /\ event_code_req[i].inserted # {}
           /\ event_code_req[i].mails = 0)
              => /\ \E e \in event_codes : e.id \in event_code_req[i].inserted
                 /\ event_code_req[i].http = 201

\* C31: logsheet uniqueness.  In every state daily_logsheet holds at most one
\* row per (student_number, log_date), whatever the order and interleaving of
\* the submissions and updates.
C31_OneLogsheetPerDay ==
    \A l1 \in daily_logsheet, l2 \in daily_logsheet :
        (l1.student_number = l2.student_number /\ l1.log_date = l2.log_date) => l1 = l2

\* C32: event registration cap.  After any sequence of register and
\* event-attendance/mark calls, one at a time, event_attendance holds at most
\* one row per event and student; and a register call of an eligible student
\* for an active event that is not past is answered 403 exactly when a row of
\* that event and student is there already, and otherwise inserts one row.
C32_OneRegistrationPerStudent ==
    \A a1 \in event_attendance, a2 \in event_attendance :
        (/\ a1.event_id = a2.event_id
         /\ wil_application[a1.student_id].student_number
               = wil_application[a2.student_id].student_number)
            => a1 = a2

\* C33: the sweep never overwrites a non-active status.  A turn of the sweep's
\* loop leaves every row of student_users whose status is suspended or
\* unenrolled as it is, also when the suspension or unenrolment was made after
\* the sweep read its list of active students.
C33_SweepKeepsAdminStatus ==
    [][(sweep.pc = "loop" /\ sweep' # sweep) =>
          \A row \in student_users :
              row.status \in {"suspended", "unenrolled"} => row \in student_users']_vars

\* C34: the recompute ignores admin states.  A POST
\* /api/update-student-status/:student_number answered 200 for a student whose
\* stored status is suspended or unenrolled stores the status derived from
\* the activity (active if the latest logsheet is at most 10 days old, else
\* inactive) and reports status_changed = true; and after every call answered
\* 200 the stored status is active or inactive.
C34_RecomputeIgnoresAdminStates ==
    [][\A sn \in StudentNumbers :
          (/\ last_call'.op = "update-student-status"
           /\ last_call'.student_number = sn
           /\ recompute'.http = 200)
              => LET before == {row.status : row \in {x \in student_users : x.email[1] = sn}}
                     after == {row.status : row \in {x \in student_users' : x.email[1] = sn}}
                     dates == {l.log_date : l \in {k \in daily_logsheet : k.student_number = sn}}
                     derived == IF dates = {} THEN "inactive"
                                ELSE IF today - SetMax(dates) <= 10 THEN "active"
                                ELSE "inactive"
                 IN  /\ after \subseteq {"active", "inactive"}
                     /\ before \cap {"suspended", "unenrolled"} # {}
                           => (after = {derived} /\ recompute'.status_changed)]_vars

\* C34 witness: a recompute of a suspended or unenrolled student with a recent
\* logsheet has answered that the status changed, and the student is active.
C34_SuspendedMadeActive ==
    /\ Answered("update-student-status", "s1")
    /\ admin.op \in {"suspend-student", "unenroll-student"} /\ admin.http = 200
    /\ admin.data_status \subseteq {"suspended", "unenrolled"}
    /\ recompute.http = 200 /\ recompute.status_changed
    /\ recompute.data_status = {"active"}
    /\ \A row \in student_users : row.email[1] = "s1" => row.status = "active"

\* C35: the sweep agrees with the per-student recompute.  When a sweep that
\* ran with nothing beside it has answered, every student that was active when
\* it started has the status the recompute would store from the same
\* logsheets (active if the latest logsheet is at most 10 days old, else
\* inactive), and updated_students lists exactly the students of that list
\* that are inactive now.
C35_SweepAgreesWithRecompute ==
    (sweep.pc = "done" /\ Answered("update-status-for-inactive-students", ""))
        => LET started == {sweep.activeStudents[i] : i \in DOMAIN sweep.activeStudents}
               dates(sn) == {l.log_date : l \in {k \in daily_logsheet : k.student_number = sn}}
               derived(sn) == IF dates(sn) = {} THEN "inactive"
                              ELSE IF today - SetMax(dates(sn)) <= 10 THEN "active"
                              ELSE "inactive"
           IN  /\ \A row \in student_users :
                     row.email \in started => row.status = derived(row.email[1])
               /\ {sweep.updatedStudents[i] : i \in DOMAIN sweep.updatedStudents}
                     = {row.email[1] : row \in {x \in student_users :
                           x.email \in started /\ x.status = "inactive"}}

\* C36: no revocation of issued codes.  A row leaves signup_codes only in the
\* commit of a redemption (student_signup or signup) answered 201: no status
\* update to Rejected or Pending and no deletion of the application removes
\* one; and every code that has a row is answered "Valid code" by the
\* validation and taken by a redemption that presents it, whatever the status
\* of its application and also when the application is gone.
C36_NoRevocation ==
    [][/\ signup_codes \ signup_codes' # {}
           => \E r \in Signups : /\ signup[r].pc = "commit"
                                 /\ signup'[r].pc = "done" /\ signup'[r].status = 201
                                 /\ signup_codes \ signup_codes'
                                       = {s \in signup_codes : s.id \in signup[r].deleted}
       /\ \A s \in signup_codes' :
             s.email \notin blocked_signups' => ValidateSignupCode(s.code)'.success
       /\ \A r \in Signups :
             (/\ signup[r].pc = "idle" /\ signup'[r].pc # "idle"
              /\ \E s \in signup_codes : s.code = signup'[r].code)
                 => signup'[r].pc \in {"insert_student", "insert_users"}]_vars

\* C36 witness: application 1 was accepted, then rejected, then deleted, and
\* a redemption that presented its code afterwards is at its commit.
C36_RedeemingAfterDeletion ==
    /\ 1 \notin DOMAIN wil_application
    /\ removal.http = 200
    /\ \E u \in Updates : upd[u].pc = "done" /\ upd[u].status = "Rejected" /\ upd[u].http = 200
    /\ \E r \in Signups : signup[r].pc = "commit" /\ signup[r].deleted # {}

\* C37: single use holds across both signup endpoints.  In calls that run one
\* after the other, a POST /api/student_signup or POST /api/signup that
\* presents a code which a redemption through either endpoint has used before
\* does not end with 201, and at most one call ends with 201 for one code.
C37_SingleUseAcrossEndpoints ==
    /\ \A r \in Signups : signup[r].consumed_by # {} => signup[r].status # 201
    /\ \A code \in Codes :
          Cardinality({r \in Signups : signup[r].status = 201 /\ signup[r].code = code}) <= 1

\* C38: staff-code validation recognises issued codes.  For a code that has a
\* row in staff_codes, every answer POST /api/validate-staff-code can give is
\* success: true with the staff_name and staff_email of that row; for a code
\* without a row it is success: false with "Invalid staff code".
C38_ValidationRecognisesIssuedCodes ==
    \A code \in StaffCodeValues :
        \A answer \in ValidateStaffCode(code) :
            IF SelectStaffCodes(code) # {}
            THEN /\ answer.success
                 /\ \E row \in SelectStaffCodes(code) :
                       /\ answer.data.staff_name = row.staff_name
                       /\ answer.data.staff_email = row.staff_email
            ELSE ~answer.success /\ answer.message = "Invalid staff code"
====
